---- MODULE Spec2Model ----
(***************************************************************************)
(* zinfer: extraction of input/output types from Zod schemas.              *)
(*                                                                         *)
(* The model follows src/src/core/extractor.ts (ZodTypeExtractor), the     *)
(* schema detector, the reference analyzer, the type printer and the CLI   *)
(* driver.  Type texts are sequences of tokens (strings); the TypeScript   *)
(* checker is an oracle (Expand) that is a function of the project's       *)
(* source files and of the set of schemas whose query fails.               *)
(***************************************************************************)
EXTENDS Naturals, Sequences, FiniteSets, TLC

\* ------------------------------------------------------------------ bounds
\* longest sequence of calls made on one ImportResolver
MaxCalls == 3
\* longest list of names given to extractMultiple
MaxNames == 2
\* number of schemas of the project whose checker query throws
MaxBroken == 1

\* ----------------------------------------------------------- small helpers
Range(s) == {s[i] : i \in 1..Len(s)}

RECURSIVE Concat(_)
Concat(ss) == IF ss = <<>> THEN <<>> ELSE Head(ss) \o Concat(Tail(ss))

RECURSIVE Join(_, _)
Join(ss, sep) ==
  IF ss = <<>> THEN <<>>
  ELSE IF Len(ss) = 1 THEN Head(ss)
  ELSE Head(ss) \o <<sep>> \o Join(Tail(ss), sep)

\* index of the first element of s satisfying P, 0 when there is none
FirstIndex(s, P(_)) ==
  IF \E i \in 1..Len(s) : P(s[i])
  THEN CHOOSE i \in 1..Len(s) : P(s[i]) /\ \A j \in 1..(i-1) : ~P(s[j])
  ELSE 0

SeqsUpTo(S, n) == UNION {[1..k -> S] : k \in 1..n}

\* --------------------------------------------------- the project's sources
Files == {"pets", "shared", "plain", "tree", "brands"}

Field(n, tin, tout, ref, arr, opt) ==
  [fieldName |-> n, primIn |-> tin, primOut |-> tout, refSchema |-> ref,
   isArray |-> arr, isOptional |-> opt, isNullable |-> FALSE]

\* the field with .nullable() at the end of its chain
Nullable(fld) == [fld EXCEPT !.isNullable = TRUE]

\* a .brand<"b">() call and the path of property names that leads to it (<<>> at
\* the root of the initializer)
Brand(b, path) == [brandName |-> b, fieldPath |-> path]

\* a variable declaration: annotation is T of `: z.ZodType<T>` ("" when there is
\* none), builder the method after `z.`, elems the elements of a union's member
\* array ("z.string()" is an inline element, no identifier), fields the properties
\* of the object literal, getters the accessor properties `get name() { return ... }`
VarDecl(n, exp, ann, b, elems, fields) ==
  [name |-> n, exported |-> exp, annotation |-> ann, builder |-> b,
   elems |-> elems, fields |-> fields, brands |-> <<>>, getters |-> <<>>]

Branded(d, bs) == [d EXCEPT !.brands = bs]

\* an accessor property and the schema its return expression names
Getter(n, ref, arr, rec, opt) ==
  [fieldName |-> n, refSchema |-> ref, isArray |-> arr, isRecord |-> rec, isOptional |-> opt]

WithGetters(d, gs) == [d EXCEPT !.getters = gs]

\* the variable declarations of each file, in source order
Decls(f) ==
  CASE f = "pets" ->
       << VarDecl("Dog", TRUE, "", "object", <<>>,
                  <<Field("name", "string", "string", "", FALSE, FALSE)>>),
          VarDecl("Cat", FALSE, "", "object", <<>>,
                  <<Field("indoor", "boolean", "boolean", "", FALSE, FALSE)>>),
          VarDecl("Owner", TRUE, "", "object", <<>>,
                  <<Field("pet", "", "", "Dog", FALSE, FALSE),
                    Field("cats", "", "", "Cat", TRUE, FALSE),
                    Field("home", "", "", "Shared", FALSE, TRUE),
                    Field("bird", "", "", "Bird", FALSE, FALSE),
                    Nullable(Field("mate", "", "", "Dog", FALSE, FALSE)),
                    Field("spare", "", "", "Bird", FALSE, TRUE)>>),
          VarDecl("Bird", TRUE, "", "object", <<>>,
                  <<Field("born", "string", "Date", "", FALSE, FALSE)>>),
          VarDecl("Pet", TRUE, "", "discriminatedUnion", <<"Dog", "Cat", "Bird">>, <<>>),
          VarDecl("Animal", TRUE, "", "union", <<"Dog", "Cat">>, <<>>),
          VarDecl("Shop", TRUE, "", "object", <<>>,
                  <<Field("carpet", "string", "string", "", FALSE, FALSE),
                    Field("pet", "", "", "Dog", FALSE, FALSE)>>),
          VarDecl("JsonSchema", TRUE, "JsonValue", "lazy", <<>>, <<>>),
          Branded(VarDecl("TagSchema", TRUE, "", "string", <<>>, <<>>), <<Brand("Tag", <<>>)>>) >>
    [] f = "shared" ->
       << VarDecl("Shared", TRUE, "", "object", <<>>,
                  <<Field("id", "string", "string", "", FALSE, FALSE)>>),
          VarDecl("Helper", FALSE, "", "object", <<>>,
                  <<Field("internal", "boolean", "boolean", "", FALSE, FALSE)>>) >>
    [] f = "brands" ->
       << Branded(VarDecl("Store", TRUE, "", "object", <<>>,
                          <<Field("carpet", "string", "string", "", FALSE, FALSE),
                            Field("pet", "string", "string", "", FALSE, FALSE)>>),
                  <<Brand("PetId", <<"pet">>)>>),
          VarDecl("Choice", TRUE, "", "union", <<"Store", "z.string()">>, <<>>) >>
    [] f = "tree" ->
       << WithGetters(VarDecl("TreeNode", TRUE, "", "object", <<>>,
                              <<Field("value", "string", "string", "", FALSE, FALSE)>>),
                      <<Getter("children", "TreeNode", TRUE, FALSE, TRUE)>>) >>
    [] f = "plain" ->
       << VarDecl("settings", TRUE, "", "none", <<>>, <<>>) >>
    [] OTHER -> << >>

\* the files of the project: the schema files and two barrel files that
\* re-export each other
Modules == Files \cup {"index", "models"}

\* the relative named imports of each file: local name, imported name, module
Imports(f) ==
  IF f = "pets"
  THEN << [localName |-> "Shared", importedName |-> "Shared", module |-> "shared"],
          [localName |-> "Ghost", importedName |-> "Ghost", module |-> "index"],
          [localName |-> "Lost", importedName |-> "Lost", module |-> "nowhere"] >>
  ELSE << >>

\* the export declarations `export { name as alias }` of each file
Reexports(f) ==
  IF f = "shared" THEN << [name |-> "Helper", alias |-> "Aliased"] >> ELSE << >>

ExportStar(m) == [module |-> m, namedExports |-> << >>]

ExportNamed(m, named) == [module |-> m, namedExports |-> named]

\* the export declarations of each file in source order: `export { a as b }`
\* (module ""), `export * from "m"` and `export { a as b } from "m"`
ExportsFrom(f) ==
  [i \in 1..Len(Reexports(f)) |-> ExportNamed("", <<Reexports(f)[i]>>)]
  \o (CASE f = "index" ->
            << ExportStar("models"),
               ExportNamed("shared", <<[name |-> "Shared", alias |-> "Common"]>>) >>
        [] f = "models" ->
            << ExportStar("index"), ExportStar("nowhere"), ExportStar("shared") >>
        [] OTHER -> << >>)

\* what the checker prints for a named type alias of the file (type JsonValue = ...)
AliasText(t) ==
  IF t = "JsonValue" THEN <<"string", "|", "JsonValue", "[", "]">> ELSE <<"any">>

DeclOf(f, n) ==
  LET i == FirstIndex(Decls(f), LAMBDA d : d.name = n) IN
  IF i = 0 THEN VarDecl("", FALSE, "", "none", <<>>, <<>>) ELSE Decls(f)[i]

ImportOf(f, n) ==
  LET i == FirstIndex(Imports(f), LAMBDA m : m.localName = n) IN
  IF i = 0 THEN [localName |-> "", importedName |-> "", module |-> ""] ELSE Imports(f)[i]

\* the names a request may use: declared names and an absent one
RequestNames(f) ==
  CASE f = "pets" -> {"Dog", "Pet", "JsonSchema", "Missing"}
    [] f = "shared" -> {"Shared", "Missing"}
    [] f = "tree" -> {"TreeNode"}
    [] OTHER -> {"Missing"}

\* the checker queries that may fail: <<file, queried schema or type>>
Breakable == {<<"pets", "Dog">>, <<"pets", "Owner">>, <<"pets", "JsonValue">>, <<"shared", "Shared">>}

\* --------------------------------------------------------- schema detector
ZOD_SCHEMA_BUILDERS == {"object", "string", "union", "discriminatedUnion", "lazy"}

isZodSchema(d) == d.annotation # "" \/ d.builder \in ZOD_SCHEMA_BUILDERS

extractExplicitType(d) == d.annotation

DetectedSchema(n, exp, explicit) == [name |-> n, isExported |-> exp, explicitType |-> explicit]

\* the named export `export { name as alias }` handled after the variable
\* statements: an alias of a schema adds an exported entry of its own, a
\* same-name export marks the entry exported
addReexport_AlsoOriginal(schemaList, f, re) ==
  [i \in 1..Len(schemaList) |->
     IF schemaList[i].name = re.name THEN [schemaList[i] EXCEPT !.isExported = TRUE]
     ELSE schemaList[i]]
  \o <<DetectedSchema(re.alias, TRUE, "")>>

addReexport(schemaList, f, re) ==
  IF ~(DeclOf(f, re.name).name = re.name /\ isZodSchema(DeclOf(f, re.name)))
  THEN schemaList
  ELSE IF re.alias # re.name
  THEN IF \E i \in 1..Len(schemaList) : schemaList[i].name = re.alias
       THEN schemaList
       ELSE schemaList \o <<DetectedSchema(re.alias, TRUE, "")>>
  ELSE IF \E i \in 1..Len(schemaList) : schemaList[i].name = re.name
  THEN [i \in 1..Len(schemaList) |->
          IF i = FirstIndex(schemaList, LAMBDA sc : sc.name = re.name)
          THEN [schemaList[i] EXCEPT !.isExported = TRUE] ELSE schemaList[i]]
  ELSE schemaList \o <<DetectedSchema(re.alias, TRUE, "")>>

RECURSIVE addReexports(_, _, _)
addReexports(schemaList, f, res) ==
  IF res = <<>> THEN schemaList
  ELSE addReexports(addReexport(schemaList, f, Head(res)), f, Tail(res))

\* the schemas of a file: the variable declarations in source order, exported
\* or not, then the aliases of the export declarations
detectExportedSchemas(f) ==
  LET keep == SelectSeq(Decls(f), isZodSchema) IN
  addReexports([i \in 1..Len(keep) |->
                  DetectedSchema(keep[i].name, keep[i].exported, extractExplicitType(keep[i]))],
               f, Reexports(f))

getSchemaNames(f) ==
  LET ds == detectExportedSchemas(f) IN [i \in 1..Len(ds) |-> ds[i].name]

\* --------------------------------------------------------- import resolver
\* resolveFromPossiblePaths: the file a module specifier names, "" when none
resolveModuleSpecifier(fromFile, moduleSpecifier) ==
  IF moduleSpecifier \in Modules THEN moduleSpecifier ELSE ""

resolveImportedFile(m) == resolveModuleSpecifier("", m.module)

NotFound == [sourceFile |-> "", schemaName |-> ""]

definesSchema(f, schemaName) ==
  \E i \in 1..Len(detectExportedSchemas(f)) : detectExportedSchemas(f)[i].name = schemaName

\* visited.add(filePath) without the check that precedes it
markVisited_Forgets(visited, filePath) == visited

\* visited.add(filePath)
markVisited(visited, filePath) == visited \cup {filePath}

\* one invocation of findSchemaSource waiting in its loop over the export
\* declarations: decl is the declaration it is at, via how it was called ("root",
\* "star" or "named")
Frame(f, schemaName, via) == [file |-> f, name |-> schemaName, decl |-> 1, via |-> via]

LookupIdle ==
  [status |-> "idle", stack |-> << >>, visited |-> {}, entered |-> << >>, blocked |-> << >>,
   ret |-> "none", via |-> "", result |-> NotFound, importedName |-> ""]

\* the invocation found the file already visited: it returns undefined
blockedAt(l, target, via) ==
  [l EXCEPT !.blocked = Append(@, target), !.ret = "undefined", !.via = via]

\* the invocation enters the file: it returns the file when the schema is
\* defined there, and otherwise starts its loop over the export declarations
enter(seen, target, schemaName, via, defined) ==
  IF defined
  THEN [seen EXCEPT !.ret = "found", !.via = via,
                    !.result = [sourceFile |-> target, schemaName |-> schemaName]]
  ELSE [seen EXCEPT !.stack = Append(@, Frame(target, schemaName, via))]

\* an invocation findSchemaSource(target, schemaName, visited) made by the top
\* frame (or by findImportedSchemas when the stack is empty)
invoke(l, target, schemaName, via) ==
  IF target \in l.visited
  THEN blockedAt(l, target, via)
  ELSE enter([l EXCEPT !.visited = markVisited(@, target), !.entered = Append(@, target)],
             target, schemaName, via, definesSchema(target, schemaName))

advance(l) == [l EXCEPT !.stack[Len(l.stack)].decl = @ + 1, !.ret = "none", !.via = ""]

\* the top frame returns ret to its caller
return(l, ret) ==
  [l EXCEPT !.stack = SubSeq(@, 1, Len(@) - 1), !.ret = ret, !.via = l.stack[Len(l.stack)].via]

exportedName(ne) == IF ne.alias # "" THEN ne.alias ELSE ne.name

\* the named export of the declaration that exports schemaName, 0 when none does
matchingExport(e, schemaName) ==
  FirstIndex(e.namedExports, LAMBDA ne : exportedName(ne) = schemaName)

\* the named export at position match re-exports the schema the frame looks for
followNamed(l, e, target, match) ==
  IF match = 0 THEN advance(l) ELSE invoke(l, target, e.namedExports[match].name, "named")

\* the top frame looks at one export declaration, target being the file its
\* module specifier resolves to
followExport(l, top, e, target) ==
  IF e.module = "" \/ target = "" THEN advance(l)
  ELSE IF e.namedExports = << >> THEN invoke(l, target, top.name, "star")
  ELSE followNamed(l, e, target, matchingExport(e, top.name))

\* the top frame takes the value an invocation returned to it, or goes on with
\* its loop over the export declarations
stepFrame(l, top, exports) ==
  IF l.ret # "none"
  THEN IF l.via = "star" /\ l.ret = "undefined" THEN advance(l) ELSE return(l, l.ret)
  ELSE IF top.decl > Len(exports) THEN return(l, "undefined")
  ELSE followExport(l, top, exports[top.decl],
                    resolveModuleSpecifier(top.file, exports[top.decl].module))

\* one step of the lookup
lookupStep(l) ==
  IF l.stack = << >>
  THEN [l EXCEPT !.status = "done"]
  ELSE stepFrame(l, l.stack[Len(l.stack)], ExportsFrom(l.stack[Len(l.stack)].file))

startLookup(f, schemaName) ==
  invoke([LookupIdle EXCEPT !.status = "running", !.importedName = schemaName],
         f, schemaName, "root")

RECURSIVE runLookup(_)
runLookup(l) == IF l.status = "done" THEN l ELSE runLookup(lookupStep(l))

lookupResult(l) == IF l.ret = "found" THEN l.result ELSE NotFound

\* the definition of schemaName reached from the file f, NotFound when there is none
findSchemaSource(f, schemaName) == lookupResult(runLookup(startLookup(f, schemaName)))

\* the origin of one named import, NotFound when the module does not resolve
locateImport(m, resolvedSourceFile) ==
  IF resolvedSourceFile = "" THEN NotFound
  ELSE findSchemaSource(resolvedSourceFile, m.importedName)

\* result.set(localName, {...}) when the origin is found
importedSchemaInfo(m, actualSource) ==
  IF actualSource = NotFound THEN << >>
  ELSE << [localName |-> m.localName, originalName |-> actualSource.schemaName,
           sourceFilePath |-> actualSource.sourceFile, resolved |-> TRUE] >>

importedSchemasOf(importDecls) ==
  Concat([i \in 1..Len(importDecls) |->
            importedSchemaInfo(importDecls[i],
                               locateImport(importDecls[i], resolveImportedFile(importDecls[i])))])

\* Map<localName, ImportedSchemaInfo> in insertion order: an import whose module
\* does not resolve, or whose origin findSchemaSource does not find, gets no entry
findImportedSchemas(f) == importedSchemasOf(Imports(f))

\* ------------------------------------------------------ reference analyzer
\* the identifiers of a member array that name schemas of the call, self excluded
isIdentifier(element) == element \notin {"", "z.string()"}

extractSchemaArrayMembers(elems, schemaNames, currentSchema) ==
  SelectSeq(elems, LAMBDA e : isIdentifier(e) /\ e \in schemaNames /\ e # currentSchema)

\* memberSchemas of the union reference of schemaName, <<>> when it has none
analyzeUnionReferences(f, schemaNames, schemaName) ==
  LET d == DeclOf(f, schemaName) IN
  IF schemaName \in schemaNames /\ d.name = schemaName
     /\ d.builder \in {"union", "discriminatedUnion"}
  THEN extractSchemaArrayMembers(d.elems, schemaNames, schemaName)
  ELSE <<>>

analyzeFieldValue(fld, schemaNames, currentSchema) ==
  [fieldPath |-> fld.fieldName, refSchema |-> fld.refSchema, isArray |-> fld.isArray,
   isRecord |-> FALSE, isOptional |-> fld.isOptional \/ fld.isNullable]

\* the SchemaReferenceInfo list of schemaName
analyzeReferences(f, schemaNames, schemaName) ==
  LET d == DeclOf(f, schemaName)
      refFields == SelectSeq(d.fields,
                     LAMBDA fld : fld.refSchema # "" /\ fld.refSchema \in schemaNames
                                  /\ fld.refSchema # schemaName)
  IN IF schemaName \in schemaNames /\ d.name = schemaName /\ d.builder = "object"
     THEN [i \in 1..Len(refFields) |-> analyzeFieldValue(refFields[i], schemaNames, schemaName)]
     ELSE <<>>

\* ---------------------------------------------- getter and brand detectors
Thrown == [ok |-> FALSE, text |-> <<>>]

\* GetterFieldMap entry of one schema: its accessor properties with isSelfRef
analyzeGetter(g, schemaName) ==
  [fieldName |-> g.fieldName, refSchema |-> g.refSchema, isArray |-> g.isArray,
   isRecord |-> g.isRecord, isOptional |-> g.isOptional,
   isSelfRef |-> g.refSchema = schemaName]

getterInfos(gs, schemaName) == [i \in 1..Len(gs) |-> analyzeGetter(gs[i], schemaName)]

analyzeGetterFields(f, schemaName) == getterInfos(DeclOf(f, schemaName).getters, schemaName)

hasSelfReferences(getterFields) == \E i \in 1..Len(getterFields) : getterFields[i].isSelfRef

\* resolveAnyTypes(typeStr, _schemaName, getterFields, typeName) as the extractor
\* calls it, with three arguments: the loop `for (const [fieldName, info] of
\* getterFields)` runs over the characters of the type name it got in third
\* place, info is undefined and reading info.isSelfRef throws
resolveAnyTypes(typeStr, schemaNameArg, getterFieldsArg, typeNameArg) ==
  IF getterFieldsArg = "" THEN [ok |-> TRUE, text |-> typeStr] ELSE Thrown

detectBrands(f, schemaNames, schemaName) ==
  IF schemaName \in schemaNames /\ DeclOf(f, schemaName).name = schemaName
  THEN DeclOf(f, schemaName).brands ELSE <<>>

\* ------------------------------------------------------ the checker oracle
FieldTok(fld) == fld.fieldName \o (IF fld.isOptional THEN "?: " ELSE ": ")

isLocalDecl(n, d) == d.name = n /\ n # ""

\* the names whose printed types the type of n is made of: the schemas its
\* fields and getters reference, the members of its union, the imported original
typeParts(n, d, m) ==
  CASE isLocalDecl(n, d) /\ d.builder = "object" ->
         {d.fields[i].refSchema : i \in {k \in 1..Len(d.fields) : d.fields[k].refSchema # ""}}
         \cup {d.getters[i].refSchema :
                 i \in {k \in 1..Len(d.getters) : d.getters[k].refSchema # n}}
    [] isLocalDecl(n, d) /\ d.builder \in {"union", "discriminatedUnion"} -> Range(d.elems)
    [] isLocalDecl(n, d) -> {}
    [] n = "z.string()" -> {}
    [] m.localName = n /\ n # "" /\ m.module \in Files -> {m.importedName}
    [] OTHER -> {}

\* the file the parts are declared in
partsFile(f, n, d, m) == IF isLocalDecl(n, d) \/ m.localName # n THEN f ELSE m.module

FieldText(fld, kind, parts) ==
  <<FieldTok(fld)>>
  \o (IF fld.refSchema = ""
      THEN <<IF kind = "input" THEN fld.primIn ELSE fld.primOut>>
      ELSE parts[fld.refSchema])
  \o (IF fld.isArray THEN <<"[", "]">> ELSE <<>>)
  \o (IF fld.isNullable THEN <<"|", "null">> ELSE <<>>)
  \o (IF fld.isOptional THEN <<"|", "undefined">> ELSE <<>>)
  \o <<";">>

\* a getter that returns its own schema is printed as any
GetterText(g, n, parts) ==
  <<g.fieldName \o (IF g.isOptional THEN "?: " ELSE ": ")>>
  \o (IF g.refSchema = n THEN <<"any">> ELSE parts[g.refSchema])
  \o (IF g.isArray /\ g.refSchema # n THEN <<"[", "]">> ELSE <<>>)
  \o <<";">>

\* the text of n, given the texts of its parts
typeText(n, kind, d, m, parts) ==
  CASE isLocalDecl(n, d) /\ d.builder = "object" ->
         <<"{">> \o Concat([i \in 1..Len(d.fields) |-> FieldText(d.fields[i], kind, parts)])
         \o Concat([i \in 1..Len(d.getters) |-> GetterText(d.getters[i], n, parts)])
         \o <<"}">>
    [] isLocalDecl(n, d) /\ d.builder \in {"union", "discriminatedUnion"} ->
         Join([i \in 1..Len(d.elems) |-> parts[d.elems[i]]], "|")
    [] isLocalDecl(n, d) /\ d.builder = "lazy" -> AliasText(d.annotation)
    [] isLocalDecl(n, d) /\ d.builder = "string" -> <<"string">>
    [] n = "z.string()" -> <<"string">>
    [] m.localName = n /\ n # "" /\ m.module \in Files -> parts[m.importedName]
    [] OTHER -> <<"any">>

RECURSIVE expandDecl(_, _, _, _, _)
expandDecl(f, n, kind, d, m) ==
  typeText(n, kind, d, m,
           [part \in typeParts(n, d, m) |->
              expandDecl(partsFile(f, n, d, m), part, kind,
                         DeclOf(partsFile(f, n, d, m), part),
                         ImportOf(partsFile(f, n, d, m), part))])

\* the fully expanded text the checker prints for z.input / z.output of a variable
Expand(f, n, kind) == expandDecl(f, n, kind, DeclOf(f, n), ImportOf(f, n))

\* ---------------------------------------------------------- the extractor
TEMP_TYPE_NAMES == <<"__Normalize", "__TempInput", "__TempOutput">>

Stmt(k, n, of) == [kind |-> k, name |-> n, of |-> of]

\* the statements of a file as read from disk
SourceStmts(f) ==
  [i \in 1..Len(Decls(f)) |-> Stmt("const", Decls(f)[i].name, "")]
  \o (IF f = "pets" THEN <<Stmt("type", "JsonValue", "")>> ELSE <<>>)

getTypeAlias(stmts, n) == FirstIndex(stmts, LAMBDA st : st.kind = "type" /\ st.name = n)

removeTypeAlias(stmts, n) ==
  LET i == getTypeAlias(stmts, n) IN
  IF i = 0 THEN stmts ELSE SubSeq(stmts, 1, i - 1) \o SubSeq(stmts, i + 1, Len(stmts))

injectTemporaryTypes(stmts, schemaName) ==
  stmts \o <<Stmt("type", "__Normalize", ""), Stmt("type", "__TempInput", schemaName),
             Stmt("type", "__TempOutput", schemaName)>>

RECURSIVE removeAll(_, _)
removeAll(stmts, names) ==
  IF names = <<>> THEN stmts ELSE removeAll(removeTypeAlias(stmts, Head(names)), Tail(names))

cleanupTemporaryTypes_KeepsOutput(stmts) == removeAll(stmts, <<"__Normalize", "__TempInput">>)

cleanupTemporaryTypes(stmts) == removeAll(stmts, TEMP_TYPE_NAMES)

injectExplicitType(stmts, explicitType) == stmts \o <<Stmt("type", "__TempExplicit", explicitType)>>

cleanupExplicitType_Skipped(stmts) == stmts

cleanupExplicitType(stmts) == removeTypeAlias(stmts, "__TempExplicit")

\* resolveType: throws when the alias is missing or the checker fails on what it
\* queries; the fixtures hold no enum and no z.core function wrapper, so the two
\* post-processing steps leave the text as printed
printedType(f, typeName, of) ==
  CASE typeName = "__TempInput" -> Expand(f, of, "input")
    [] typeName = "__TempOutput" -> Expand(f, of, "output")
    [] OTHER -> AliasText(of)

resolveAlias(stmts, f, typeName, brokenSet, i) ==
  IF i = 0 THEN Thrown
  ELSE IF <<f, stmts[i].of>> \in brokenSet THEN Thrown
  ELSE [ok |-> TRUE, text |-> printedType(f, typeName, stmts[i].of)]

resolveType(stmts, f, typeName, brokenSet) ==
  resolveAlias(stmts, f, typeName, brokenSet, getTypeAlias(stmts, typeName))

\* end of a field value: the first `;` or closing bracket at depth 0, outside strings
RECURSIVE scanValueEnd(_, _, _, _)
scanValueEnd(typeStr, endIdx, depth, inString) ==
  IF endIdx > Len(typeStr) THEN endIdx
  ELSE LET char == typeStr[endIdx] IN
       IF char \in {"\"", "'"} THEN scanValueEnd(typeStr, endIdx + 1, depth, ~inString)
       ELSE IF inString THEN scanValueEnd(typeStr, endIdx + 1, depth, inString)
       ELSE IF char \in {"{", "[", "("} THEN scanValueEnd(typeStr, endIdx + 1, depth + 1, inString)
       ELSE IF char \in {"}", "]", ")"}
            THEN IF depth = 0 THEN endIdx
                 ELSE scanValueEnd(typeStr, endIdx + 1, depth - 1, inString)
       ELSE IF char = ";" /\ depth = 0 THEN endIdx
       ELSE scanValueEnd(typeStr, endIdx + 1, depth, inString)

stripReadonly(v) == IF v # <<>> /\ Head(v) = "readonly" THEN Tail(v) ELSE v

stripArraySuffix(v) ==
  IF Len(v) >= 2 /\ v[Len(v) - 1] = "[" /\ v[Len(v)] = "]" THEN SubSeq(v, 1, Len(v) - 2) ELSE v

\* what may precede a field name inside a longer property name of the fixtures
FieldPrefixes == {"", "car"}

\* String.indexOf on the property tokens: the pattern `name: ` is found in the
\* first property token that ends with it
endsWithPattern(tok, pattern) == \E p \in FieldPrefixes : tok = p \o pattern

\* replaceSchemaReference: the value of the field named by ref becomes refTypeName
replaceSchemaReference(typeStr, ref, refTypeStr, refTypeName) ==
  LET base == <<refTypeName>> \o (IF ref.isArray THEN <<"[", "]">> ELSE <<>>)
      Try(pattern) ==
        LET idx == FirstIndex(typeStr, LAMBDA t : endsWithPattern(t, pattern))
            valueStart == idx + 1
            endIdx == scanValueEnd(typeStr, valueStart, 0, FALSE)
            currentValue == SubSeq(typeStr, valueStart, endIdx - 1)
            valueToCheck == stripArraySuffix(stripReadonly(currentValue))
            looksExpanded ==
              \/ (valueToCheck # <<>> /\ Head(valueToCheck) = "{")
              \/ valueToCheck = refTypeStr
              \/ "[x: string]:" \in Range(currentValue)
            asRecord == IF ref.isRecord THEN <<"{", "[x: string]:", refTypeName, "}">> ELSE base
            replacement ==
              IF ref.isArray /\ currentValue # <<>> /\ Head(currentValue) = "readonly"
              THEN <<"readonly">> \o asRecord ELSE asRecord
        IN IF idx # 0 /\ looksExpanded
           THEN [hit |-> TRUE,
                 text |-> SubSeq(typeStr, 1, valueStart - 1) \o replacement
                          \o SubSeq(typeStr, endIdx, Len(typeStr))]
           ELSE [hit |-> FALSE, text |-> typeStr]
      first == Try(ref.fieldPath \o ": ")
      second == Try(ref.fieldPath \o "?: ")
  IN IF first.hit THEN first.text ELSE IF second.hit THEN second.text ELSE typeStr

\* the identifiers among the explicit type texts of the fixtures
isValidIdentifier(str) == str \in {"JsonValue"}

replaceTypeName(text, typeName, by) ==
  [i \in 1..Len(text) |-> IF text[i] = typeName THEN by ELSE text[i]]

ExtractResult(n, in, out, exp, bs) ==
  [schemaName |-> n, input |-> in, output |-> out, isExported |-> exp, brands |-> bs]

RawType(in, out, exp) == [input |-> in, output |-> out, isExported |-> exp]

schemaNameSet(schemaList, importList) ==
  {schemaList[i].name : i \in 1..Len(schemaList)}
    \cup {importList[i].localName : i \in 1..Len(importList)}

\* the references of one schema applied in order, to the input or the output text
RECURSIVE applyReferences(_, _, _, _)
applyReferences(text, refs, raw, kind) ==
  IF refs = <<>> THEN text
  ELSE LET ref == Head(refs) IN
       IF ref.refSchema \notin DOMAIN raw \/ ~raw[ref.refSchema].isExported
       THEN applyReferences(text, Tail(refs), raw, kind)
       ELSE applyReferences(
              replaceSchemaReference(text, ref,
                IF kind = "Input" THEN raw[ref.refSchema].input ELSE raw[ref.refSchema].output,
                ref.refSchema \o kind),
              Tail(refs), raw, kind)

memberTypeNames(members, kind) == Join([i \in 1..Len(members) |-> <<members[i] \o kind>>], "|")

\* the result of one local schema in the second pass
secondPassResult(f, names, schema, raw) ==
  LET schemaName == schema.name
      brands == detectBrands(f, names, schemaName)
      members == analyzeUnionReferences(f, names, schemaName)
      refs == analyzeReferences(f, names, schemaName)
      input == applyReferences(raw[schemaName].input, refs, raw, "Input")
      output == applyReferences(raw[schemaName].output, refs, raw, "Output")
      selfTyped == schema.explicitType # "" /\ isValidIdentifier(schema.explicitType)
  IN IF members # <<>>
     THEN ExtractResult(schemaName, memberTypeNames(members, "Input"),
                        memberTypeNames(members, "Output"), raw[schemaName].isExported, brands)
     ELSE ExtractResult(schemaName,
            IF selfTyped THEN replaceTypeName(input, schema.explicitType, schemaName \o "Input")
            ELSE input,
            IF selfTyped THEN replaceTypeName(output, schema.explicitType, schemaName \o "Output")
            ELSE output,
            raw[schemaName].isExported, brands)

\* the list extractMultipleFromSourceFile returns: imported schemas, then local ones
buildResults(f, schemaList, importList, raw) ==
  LET names == schemaNameSet(schemaList, importList)
      imps == SelectSeq(importList, LAMBDA m : m.localName \in DOMAIN raw)
      locs == SelectSeq(schemaList, LAMBDA sc : sc.name \in DOMAIN raw)
  IN [i \in 1..Len(imps) |->
        ExtractResult(imps[i].localName, raw[imps[i].localName].input,
                      raw[imps[i].localName].output, FALSE, <<>>)]
     \o [i \in 1..Len(locs) |-> secondPassResult(f, names, locs[i], raw)]

\* the schema list extractMultiple builds from the requested names
requestedSchemas(f, schemaNames) ==
  LET allSchemas == detectExportedSchemas(f) IN
  [i \in 1..Len(schemaNames) |->
     LET k == FirstIndex(allSchemas, LAMBDA sc : sc.name = schemaNames[i]) IN
     IF k # 0 THEN allSchemas[k] ELSE DetectedSchema(schemaNames[i], TRUE, "")]

\* ------------------------------------------------------------ name mapper
\* String.endsWith / slice on the names of the fixtures
endsWith(str, suffix) ==
  suffix # "" /\ <<str, suffix>> \in {<<"JsonSchema", "Schema">>, <<"TagSchema", "Schema">>}

sliceSuffix(str, suffix) ==
  CASE str = "JsonSchema" /\ suffix = "Schema" -> "Json"
    [] str = "TagSchema" /\ suffix = "Schema" -> "Tag"
    [] OTHER -> str

NameMappingOptions(custom, remove, inSuffix, outSuffix) ==
  [customMap |-> custom, removeSuffix |-> remove, inputSuffix |-> inSuffix,
   outputSuffix |-> outSuffix]

createMappedNames(options, originalName, baseName) ==
  [originalName |-> originalName,
   inputName |-> baseName \o (IF options.inputSuffix # "" THEN options.inputSuffix ELSE "Input"),
   outputName |-> baseName \o (IF options.outputSuffix # "" THEN options.outputSuffix ELSE "Output"),
   unifiedName |-> baseName]

\* NameMapper.map
mapName(options, schemaName) ==
  IF schemaName \in DOMAIN options.customMap /\ options.customMap[schemaName] # ""
  THEN createMappedNames(options, schemaName, options.customMap[schemaName])
  ELSE IF options.removeSuffix # "" /\ endsWith(schemaName, options.removeSuffix)
  THEN createMappedNames(options, schemaName, sliceSuffix(schemaName, options.removeSuffix))
  ELSE createMappedNames(options, schemaName, schemaName)

\* ----------------------------------------------------------- type printer
\* an option of a DeclarationOptions object; an absent key reads as undefined
optionSet(options, key) == key \in DOMAIN options /\ options[key]

isWord(tok) == tok \notin {"{", "}", "[", "]", "(", ")", "|", "&", ";", "readonly"}

brandMarker(brandName) == "BRAND<\"" \o brandName \o "\">"

\* the first match of /(fieldName\??: )(\w+)(;|\s|\})/ gets the brand; fieldName is
\* the last segment of the path, and the pattern, which has no word boundary in
\* front, also matches at the end of a longer property name
applyBrandToField(typeStr, fieldPath, brandName) ==
  LET fieldName == fieldPath[Len(fieldPath)]
      at == {i \in 1..(Len(typeStr) - 2) :
               /\ (endsWithPattern(typeStr[i], fieldName \o ": ")
                   \/ endsWithPattern(typeStr[i], fieldName \o "?: "))
               /\ isWord(typeStr[i + 1])
               /\ typeStr[i + 2] \in {";", "}", "|", "&"}}
      first == CHOOSE i \in at : \A j \in at : i <= j
  IN IF at = {} THEN typeStr
     ELSE SubSeq(typeStr, 1, first + 1) \o <<"&", brandMarker(brandName)>>
          \o SubSeq(typeStr, first + 2, Len(typeStr))

RECURSIVE applyBrands(_, _)
applyBrands(typeStr, brands) ==
  IF brands = <<>> THEN typeStr
  ELSE applyBrands(
         IF Head(brands).fieldPath = <<>>
         THEN typeStr \o <<"&", brandMarker(Head(brands).brandName)>>
         ELSE applyBrandToField(typeStr, Head(brands).fieldPath, Head(brands).brandName),
         Tail(brands))

\* the token text carries no whitespace, which is all prettifyType changes when
\* there are no field descriptions
prettifyType(typeStr) == typeStr

Declaration(n, text, exp) == [name |-> n, text |-> text, exported |-> exp]

formatAsDeclaration_Swapped(result, typeName, options) ==
  LET inputOnly == optionSet(options, "inputOnly")
      outputOnly == optionSet(options, "outputOnly")
  IN (IF ~inputOnly
      THEN <<Declaration(typeName.inputName, prettifyType(result.input), result.isExported)>>
      ELSE <<>>)
     \o (IF ~outputOnly
         THEN <<Declaration(typeName.outputName,
                            prettifyType(applyBrands(result.output, result.brands)),
                            result.isExported)>>
         ELSE <<>>)

\* the declarations formatAsDeclaration emits, in order
formatAsDeclaration(result, typeName, options) ==
  LET inputOnly == optionSet(options, "inputOnly")
      outputOnly == optionSet(options, "outputOnly")
      unifySame == optionSet(options, "unifySame")
      inputFormatted == prettifyType(result.input)
      outputFormatted == prettifyType(applyBrands(result.output, result.brands))
  IN IF unifySame /\ result.input = result.output /\ Len(result.brands) = 0
     THEN <<Declaration(typeName.unifiedName, inputFormatted, result.isExported)>>
     ELSE (IF ~outputOnly
           THEN <<Declaration(typeName.inputName, inputFormatted, result.isExported)>>
           ELSE <<>>)
          \o (IF ~inputOnly
              THEN <<Declaration(typeName.outputName, outputFormatted, result.isExported)>>
              ELSE <<>>)

\* SchemaNameInput / SchemaNameOutput tokens renamed to the mapped names, one
\* schema of the list after the other
RECURSIVE fixReferences(_, _, _, _)
fixReferences(text, names, mapping, kind) ==
  IF names = <<>> THEN text
  ELSE fixReferences(
         replaceTypeName(text, Head(names) \o kind,
           IF kind = "Input" THEN mapName(mapping, Head(names)).inputName
           ELSE mapName(mapping, Head(names)).outputName),
         Tail(names), mapping, kind)

\* per exported result, the declarations formatMultipleAsDeclarations emits
formatMultipleAsDeclarations(resultList, mapping, options) ==
  LET names == [i \in 1..Len(resultList) |-> resultList[i].schemaName]
      fixedResults ==
        [i \in 1..Len(resultList) |->
           [resultList[i] EXCEPT !.input = fixReferences(@, names, mapping, "Input"),
                                 !.output = fixReferences(@, names, mapping, "Output")]]
      exportedResults == SelectSeq(fixedResults, LAMBDA r : r.isExported)
  IN [i \in 1..Len(exportedResults) |->
        [result |-> exportedResults[i],
         decls |-> formatAsDeclaration(exportedResults[i],
                     mapName(mapping, exportedResults[i].schemaName), options)]]

hasBrands(resultList) == \E i \in 1..Len(resultList) : Len(resultList[i].brands) > 0

generateDeclarationFile(resultList, mapping, options) ==
  [brandImport |-> hasBrands(resultList),
   declarations |-> formatMultipleAsDeclarations(resultList, mapping, options)]

\* -------------------------------------------------------------------- CLI
EmptyRecord == [k \in {} |-> TRUE]

has(config, key) == key \in DOMAIN config

truthy(config, key) == key \in DOMAIN config /\ config[key]

\* a string option is truthy when it is present and not empty
isSet(config, key) == key \in DOMAIN config /\ config[key] # ""

trim(str) == IF str = " " THEN "" ELSE str

\* parseCustomMap on the pairs of the --map string: pairs with an empty side are dropped
parseCustomMap(pairs) ==
  LET kept == SelectSeq(pairs, LAMBDA pr : trim(pr[1]) # "" /\ trim(pr[2]) # "") IN
  [k \in {kept[i][1] : i \in 1..Len(kept)} |->
     kept[CHOOSE i \in 1..Len(kept) :
            kept[i][1] = k /\ \A j \in (i + 1)..Len(kept) : kept[j][1] # k][2]]

\* CLI options override the config file; --map is parsed, --schemas is split
mergeCliWithConfig(cliOpts, fileCfg) ==
  [k \in DOMAIN cliOpts \cup DOMAIN fileCfg |->
     IF k \in DOMAIN cliOpts
     THEN IF k = "map" THEN parseCustomMap(cliOpts[k]) ELSE cliOpts[k]
     ELSE fileCfg[k]]

\* validateOptions: the option the InvalidOptionError names, "" when it passes
validateOptions(config) ==
  LET outputOptionsCount ==
        Cardinality({k \in {"outDir", "outFile", "outPattern"} : isSet(config, k)})
  IN CASE truthy(config, "inputOnly") /\ truthy(config, "outputOnly") -> "inputOnly/outputOnly"
       [] has(config, "suffix") /\ trim(config["suffix"]) = "" -> "suffix"
       [] has(config, "inputSuffix") /\ trim(config["inputSuffix"]) = "" -> "inputSuffix"
       [] has(config, "outputSuffix") /\ trim(config["outputSuffix"]) = "" -> "outputSuffix"
       [] outputOptionsCount > 1 /\ isSet(config, "outFile") -> "outFile"
       [] has(config, "map") /\ \E k \in DOMAIN config["map"] :
                                  trim(k) = "" \/ trim(config["map"][k]) = "" -> "map"
       [] has(config, "schemas") /\ \E i \in 1..Len(config["schemas"]) :
                                      trim(config["schemas"][i]) = "" -> "schemas"
       [] OTHER -> ""

\* createNameMapper(config)
createNameMapper(config) ==
  NameMappingOptions(IF has(config, "map") THEN config["map"] ELSE EmptyRecord,
                     IF has(config, "suffix") THEN config["suffix"] ELSE "",
                     IF has(config, "inputSuffix") THEN config["inputSuffix"] ELSE "",
                     IF has(config, "outputSuffix") THEN config["outputSuffix"] ELSE "")

\* declOptions of runCLI, cli.ts 144-148
declOptionsOf(config) ==
  [inputOnly |-> truthy(config, "inputOnly"), outputOnly |-> truthy(config, "outputOnly"),
   mergeSame |-> truthy(config, "mergeSame")]

schemasToExtract_Unfiltered(schemaFilter, existingSchemas) == schemaFilter

\* getFilteredResults: the requested names that exist in the file
schemasToExtract(schemaFilter, existingSchemas) ==
  SelectSeq(schemaFilter, LAMBDA n : n \in Range(existingSchemas))

\* FileResolver.resolveInputFiles: the existing files, sorted and de-duplicated
resolveInputFiles(inputFiles) ==
  SelectSeq(<<"pets", "plain", "shared">>, LAMBDA f : f \in Range(inputFiles))

\* ------------------------------------------------------------------ state
VARIABLES
  broken,     \* the <<file, queried name>> pairs on which the checker throws
  fileStmts,  \* the statements of every source file of the ts-morph project
  pc,         \* position of the extractor: idle, the loops' steps, returned, thrown
  call,       \* the call in progress or just finished: api, file, names
  schemas,    \* the DetectedSchema list of the call
  imported,   \* the imported schemas of the call
  idx,        \* index of the current loop
  rawTypes,   \* Map<name, {input, output, isExported}> of the first pass
  pending,    \* an exception is propagating through the finally block
  results,    \* what the call returned
  error,      \* what the call threw: "", "checker" or "notfound"
  prev,       \* outcome of the previous call when it was the same call
  printed,    \* the last formatAsDeclaration call: result, typeName, options, decls
  lookup,     \* a findSchemaSource lookup in progress: stack, visited, entered, result
  scan,       \* a scanner of a type text in progress: its text, position and flags
  resolver,   \* the ImportResolver: processedFiles and what its last call returned
  cliPc,      \* position of runCLI: off, start, loaded, validated, files, extracting,
              \* collect, finish, done, failed
  cliFiles,   \* the file arguments of the command line
  cliOptions, \* the options of the command line, present keys only
  fileConfig, \* the content of the config file, present keys only
  config,     \* the merged configuration
  io,         \* the kinds of file I/O done so far: config, glob, source, write
  resolvedFiles, \* the input files runCLI loops over
  fileIdx,    \* index of the file being processed
  fileResults,   \* the results of getFilteredResults for the current file
  allResults, \* allResults of the single-output-file mode
  totalResults,  \* totalResults of the per-file mode
  perFile,    \* the number of results every processed file contributed
  cliError,   \* the error runCLI threw, "" when none
  generated   \* the declaration files generated so far

extractorVars ==
  <<broken, fileStmts, pc, call, schemas, imported, idx, rawTypes, pending, results,
    error, prev>>

cliState ==
  <<cliPc, cliFiles, cliOptions, fileConfig, config, io, resolvedFiles, fileIdx, fileResults,
    allResults, totalResults, perFile, cliError, generated>>

NoCall == [api |-> "none", file |-> "", names |-> <<>>]
NoPrev == [outcome |-> "none", results |-> <<>>, error |-> ""]

InitExtractor ==
  /\ broken \in {b \in SUBSET Breakable : Cardinality(b) <= MaxBroken}
  /\ fileStmts = [f \in Files |-> SourceStmts(f)]
  /\ pc = "idle"
  /\ call = NoCall
  /\ schemas = <<>>
  /\ imported = <<>>
  /\ idx = 1
  /\ rawTypes = <<>>
  /\ pending = FALSE
  /\ results = <<>>
  /\ error = ""
  /\ prev = NoPrev

Finished == pc \in {"returned", "thrown"}

rawSet(raw, k, v) == [x \in DOMAIN raw \cup {k} |-> IF x = k THEN v ELSE raw[x]]

\* where the first pass continues after the import at position i
afterImport(i, importList, schemaList) ==
  IF i < Len(importList) THEN [pc |-> "imp_inject", idx |-> i + 1]
  ELSE IF schemaList # <<>> THEN [pc |-> "loc_inject", idx |-> 1]
  ELSE [pc |-> "second", idx |-> 1]

afterLocal_SecondPassAtOnce(i, schemaList) == [pc |-> "second", idx |-> 1]

afterLocal(i, schemaList) ==
  IF i < Len(schemaList) THEN [pc |-> "loc_inject", idx |-> i + 1]
  ELSE [pc |-> "second", idx |-> 1]

\* entry of extractMultipleFromSourceFile: the analyses, then the first pass
beginExtraction(api, f, names, schemaList) ==
  LET importList == findImportedSchemas(f)
      newCall == [api |-> api, file |-> f, names |-> names]
      start == IF importList # <<>> THEN [pc |-> "imp_inject", idx |-> 1]
               ELSE afterImport(0, <<>>, schemaList)
  IN /\ pc \in {"idle", "returned", "thrown"}
     /\ prev' = IF Finished /\ call = newCall
                THEN [outcome |-> pc, results |-> results, error |-> error] ELSE NoPrev
     /\ call' = newCall
     /\ schemas' = schemaList
     /\ imported' = importList
     /\ pc' = start.pc
     /\ idx' = start.idx
     /\ rawTypes' = <<>>
     /\ pending' = FALSE
     /\ results' = <<>>
     /\ error' = ""
     /\ UNCHANGED <<broken, fileStmts>>

\* the public methods, up to the entry of extractMultipleFromSourceFile
extractAll(f) == beginExtraction("extractAll", f, <<>>, detectExportedSchemas(f))

extractMultiple(f, names) ==
  beginExtraction("extractMultiple", f, names, requestedSchemas(f, names))

extract(f, n) == beginExtraction("extract", f, <<n>>, requestedSchemas(f, <<n>>))

\* a caller of the library invokes a public method
ExtractAll(f) == extractAll(f) /\ UNCHANGED <<printed, lookup, scan, resolver, cliState>>

ExtractMultiple(f, names) == extractMultiple(f, names) /\ UNCHANGED <<printed, lookup, scan, resolver, cliState>>

Extract(f, n) == extract(f, n) /\ UNCHANGED <<printed, lookup, scan, resolver, cliState>>

\* import loop, extractor.ts 168-190
ImportInject ==
  /\ pc = "imp_inject"
  /\ LET info == imported[idx]
         next == afterImport(idx, imported, schemas)
     IN IF ~info.resolved \/ info.sourceFilePath \notin Files
        THEN /\ pc' = next.pc
             /\ idx' = next.idx
             /\ UNCHANGED fileStmts
        ELSE /\ fileStmts' = [fileStmts EXCEPT ![info.sourceFilePath] =
                                injectTemporaryTypes(@, info.originalName)]
             /\ pc' = "imp_query"
             /\ UNCHANGED idx
  /\ UNCHANGED <<broken, call, schemas, imported, rawTypes, pending, results, error, prev>>
  /\ UNCHANGED <<printed, lookup, scan, resolver, cliState>>

\* the outcome of the two queries of a schema
rawOf(inputType, outputType, isExported) ==
  [ok |-> inputType.ok /\ outputType.ok,
   raw |-> RawType(inputType.text, outputType.text, isExported)]

rawSetIfOk(raw, n, q) == IF q.ok THEN rawSet(raw, n, q.raw) ELSE raw

\* the try / catch of one imported schema: a failed query leaves no raw type
importQuery(raw, info, stmts, brokenSet) ==
  rawSetIfOk(raw, info.localName,
             rawOf(resolveType(stmts, info.sourceFilePath, "__TempInput", brokenSet),
                   resolveType(stmts, info.sourceFilePath, "__TempOutput", brokenSet), FALSE))

ImportQuery ==
  /\ pc = "imp_query"
  /\ rawTypes' = importQuery(rawTypes, imported[idx], fileStmts[imported[idx].sourceFilePath],
                              broken)
  /\ pc' = "imp_cleanup"
  /\ UNCHANGED <<broken, fileStmts, call, schemas, imported, idx, pending, results, error, prev>>
  /\ UNCHANGED <<printed, lookup, scan, resolver, cliState>>

ImportCleanup ==
  /\ pc = "imp_cleanup"
  /\ fileStmts' = [fileStmts EXCEPT ![imported[idx].sourceFilePath] = cleanupTemporaryTypes(@)]
  /\ pc' = afterImport(idx, imported, schemas).pc
  /\ idx' = afterImport(idx, imported, schemas).idx
  /\ UNCHANGED <<broken, call, schemas, imported, rawTypes, pending, results, error, prev>>
  /\ UNCHANGED <<printed, lookup, scan, resolver, cliState>>

\* local loop, extractor.ts 193-244
LocalInject ==
  /\ pc = "loc_inject"
  /\ fileStmts' = [fileStmts EXCEPT ![call.file] =
                     IF schemas[idx].explicitType # ""
                     THEN injectExplicitType(@, schemas[idx].explicitType)
                     ELSE injectTemporaryTypes(@, schemas[idx].name)]
  /\ pc' = "loc_query"
  /\ UNCHANGED <<broken, call, schemas, imported, idx, rawTypes, pending, results, error, prev>>
  /\ UNCHANGED <<printed, lookup, scan, resolver, cliState>>

\* the body of the try block of one local schema: the raw types, or thrown
\* the body of the try block of one local schema: the raw types, or thrown;
\* extractor.ts 216-238: the `any` of self-referencing getters is patched
patchSelfReferences(schema, inputType, outputType, getterFields) ==
  IF inputType.ok /\ outputType.ok /\ hasSelfReferences(getterFields)
  THEN rawOf(resolveAnyTypes(inputType.text, getterFields, schema.name \o "Input", ""),
             resolveAnyTypes(outputType.text, getterFields, schema.name \o "Output", ""),
             schema.isExported)
  ELSE rawOf(inputType, outputType, schema.isExported)

localQuery(f, stmts, schema, brokenSet) ==
  IF schema.explicitType # ""
  THEN rawOf(resolveType(stmts, f, "__TempExplicit", brokenSet),
             resolveType(stmts, f, "__TempExplicit", brokenSet), schema.isExported)
  ELSE patchSelfReferences(schema,
                           resolveType(stmts, f, "__TempInput", brokenSet),
                           resolveType(stmts, f, "__TempOutput", brokenSet),
                           analyzeGetterFields(f, schema.name))

LocalQuery ==
  /\ pc = "loc_query"
  /\ LET q == localQuery(call.file, fileStmts[call.file], schemas[idx], broken) IN
       /\ rawTypes' = IF q.ok THEN rawSet(rawTypes, schemas[idx].name, q.raw) ELSE rawTypes
       /\ pending' = ~q.ok
  /\ pc' = "loc_cleanup"
  /\ UNCHANGED <<broken, fileStmts, call, schemas, imported, idx, results, error, prev>>
  /\ UNCHANGED <<printed, lookup, scan, resolver, cliState>>

\* what a failed query of a local schema does once the finally block has run
onLocalFailure == [pc |-> "thrown", error |-> "checker"]

LocalCleanup ==
  /\ pc = "loc_cleanup"
  /\ fileStmts' = [fileStmts EXCEPT ![call.file] =
                     IF schemas[idx].explicitType # ""
                     THEN cleanupExplicitType(@) ELSE cleanupTemporaryTypes(@)]
  /\ IF pending
     THEN /\ pc' = onLocalFailure.pc
          /\ error' = onLocalFailure.error
          /\ UNCHANGED idx
     ELSE /\ pc' = afterLocal(idx, schemas).pc
          /\ idx' = afterLocal(idx, schemas).idx
          /\ UNCHANGED error
  /\ pending' = FALSE
  /\ UNCHANGED <<broken, call, schemas, imported, rawTypes, results, prev>>
  /\ UNCHANGED <<printed, lookup, scan, resolver, cliState>>

\* what the public method hands back from the list of the second pass:
\* extract returns results[0] and throws "not found" on an empty list
apiOutcome(api, list) ==
  IF api = "extract"
  THEN IF Len(list) = 0
       THEN [pc |-> "thrown", results |-> <<>>, error |-> "notfound"]
       ELSE [pc |-> "returned", results |-> <<list[1]>>, error |-> ""]
  ELSE [pc |-> "returned", results |-> list, error |-> ""]

\* second pass and return, extractor.ts 246-326 and 57-68
SecondPass ==
  /\ pc = "second"
  /\ LET out == apiOutcome(call.api, buildResults(call.file, schemas, imported, rawTypes)) IN
       /\ pc' = out.pc
       /\ results' = out.results
       /\ error' = out.error
  /\ UNCHANGED <<broken, fileStmts, call, schemas, imported, idx, rawTypes, pending, prev>>
  /\ UNCHANGED <<printed, lookup, scan, resolver, cliState>>

ExtractorStep ==
  \/ ImportInject
  \/ ImportQuery
  \/ ImportCleanup
  \/ LocalInject
  \/ LocalQuery
  \/ LocalCleanup
  \/ SecondPass

vars == <<extractorVars, printed, lookup, scan, resolver, cliState>>

NoPrint == [called |-> FALSE]

NoScan == [fn |-> "none", status |-> "done"]

\* new ImportResolver(): an empty processedFiles; log, extractions and last
\* record the calls made on it
NewResolver ==
  [processedFiles |-> {}, log |-> << >>, extractions |-> [f \in Modules |-> 0],
   last |-> [call |-> "none"]]

InitPrinter ==
  printed = NoPrint /\ lookup = LookupIdle /\ scan = NoScan /\ resolver = NewResolver

CliOff ==
  /\ cliPc = "off"
  /\ cliFiles = <<>>
  /\ cliOptions = EmptyRecord
  /\ fileConfig = EmptyRecord
  /\ config = EmptyRecord
  /\ io = {}
  /\ resolvedFiles = <<>>
  /\ fileIdx = 1
  /\ fileResults = <<>>
  /\ allResults = <<>>
  /\ totalResults = 0
  /\ perFile = <<>>
  /\ cliError = ""
  /\ generated = <<>>

Init == InitExtractor /\ InitPrinter /\ CliOff

Next ==
  \/ \E f \in Files : ExtractAll(f)
  \/ \E f \in Files : \E names \in SeqsUpTo(RequestNames(f), MaxNames) : ExtractMultiple(f, names)
  \/ \E f \in Files : \E n \in RequestNames(f) : Extract(f, n)
  \/ ExtractorStep

Spec == Init /\ [][Next]_vars

\* ------------------------------------------- properties of the extractor
TempAliasNames == Range(TEMP_TYPE_NAMES) \cup {"__TempExplicit"}

hasTemporaryAlias(f) ==
  \E i \in 1..Len(fileStmts[f]) :
    fileStmts[f][i].kind = "type" /\ fileStmts[f][i].name \in TempAliasNames

BatchCall == call.api \in {"extractAll", "extractMultiple"}

\* the checker throws on the query made for this schema
checkerFails(f, schema) ==
  <<f, IF schema.explicitType # "" THEN schema.explicitType ELSE schema.name>> \in broken

hasResult(n) == \E j \in 1..Len(results) : results[j].schemaName = n

\* C1: whenever extract, extractAll or extractMultiple has returned or thrown,
\* no source file of the project (the entry file or an imported origin file)
\* holds one of the injected aliases __Normalize, __TempInput, __TempOutput,
\* __TempExplicit, whatever calls came before and whichever checker query failed.
C1_NoTemporaryAliasLeft == Finished => \A f \in Files : ~hasTemporaryAlias(f)

\* a second call in a row has thrown because a checker query failed
C1_Witness == pc = "thrown" /\ error = "checker" /\ prev.outcome = "thrown"

\* C2: in extractAll / extractMultiple over several local schemas a failed checker query for one schema
\* does not abort the batch: the call returns, and every schema of the call whose
\* own query does not fail has its ExtractResult.
C2_FailureConfinedToOneSchema ==
  (/\ Finished /\ BatchCall
   /\ \E i \in 1..Len(schemas) : checkerFails(call.file, schemas[i])
   /\ \E i \in 1..Len(schemas) : ~checkerFails(call.file, schemas[i])) =>
    /\ pc = "returned"
    /\ \A i \in 1..Len(schemas) :
         ~checkerFails(call.file, schemas[i]) => hasResult(schemas[i].name)

\* C3: the same extractAll / extractMultiple call made twice in a row on the
\* unchanged file ends the same way with equal result lists, and after the call
\* every file holds exactly the declarations it held before the first call.
C3_SecondCallEqual ==
  (Finished /\ BatchCall) =>
    /\ fileStmts = [f \in Files |-> SourceStmts(f)]
    /\ prev.outcome # "none" =>
         prev = [outcome |-> pc, results |-> results, error |-> error]

\* extractMultiple of two schemas, one with an explicit type, has returned twice
C3_Witness ==
  /\ pc = "returned" /\ prev.outcome = "returned"
  /\ call.api = "extractMultiple" /\ Len(results) = 2
  /\ \E i \in 1..Len(schemas) : schemas[i].explicitType # ""

\* C4: every result extractAll / extractMultiple returns carries the name of a
\* schema detected in the file, no name twice, and every detected schema the
\* call does not filter out has a result.
C4_ResultsAreDetectedSchemas ==
  (pc = "returned" /\ BatchCall) =>
    LET detected == Range(getSchemaNames(call.file)) IN
    /\ \A j \in 1..Len(results) : results[j].schemaName \in detected
    /\ \A n \in detected :
         (call.api = "extractAll" \/ n \in Range(call.names)) => hasResult(n)

\* C5: extract with a schemaName that is no schema of the file throws the
\* "not found" error and returns no ExtractResult.
C5_MissingSchemaNotFound ==
  (Finished /\ call.api = "extract"
     /\ call.names[1] \notin Range(getSchemaNames(call.file))) =>
    (pc = "thrown" /\ error = "notfound")

\* the schema is a union over an array whose elements all are schemas of the file
isUnionOfSchemas(f, n) ==
  /\ DeclOf(f, n).builder \in {"union", "discriminatedUnion"}
  /\ DeclOf(f, n).elems # <<>>
  /\ \A i \in 1..Len(DeclOf(f, n).elems) : DeclOf(f, n).elems[i] \in Range(getSchemaNames(f))

\* C10: the result of a schema built by z.discriminatedUnion(key, [M1, M2, M3])
\* or z.union([...]) over schemas of the file has the output text
\* M1Output | M2Output | M3Output and the input text M1Input | M2Input | M3Input,
\* members in declared order.
C10_UnionIsJoinOfMembers ==
  pc = "returned" =>
    \A j \in 1..Len(results) :
      isUnionOfSchemas(call.file, results[j].schemaName) =>
        /\ results[j].output =
             memberTypeNames(DeclOf(call.file, results[j].schemaName).elems, "Output")
        /\ results[j].input =
             memberTypeNames(DeclOf(call.file, results[j].schemaName).elems, "Input")

\* the fields of a local object schema that reference a schema of the same file
sameFileRefs(f, n) ==
  SelectSeq(DeclOf(f, n).fields,
            LAMBDA fld : fld.refSchema \in Range(getSchemaNames(f)) /\ fld.refSchema # n)

\* the tokens of the value of the field in the text: from the field's own
\* property token up to the `;` that ends it
fieldValue(text, fld) ==
  LET i == FirstIndex(text, LAMBDA t : t = FieldTok(fld)) IN
  IF i = 0 THEN <<>> ELSE SubSeq(text, i + 1, scanValueEnd(text, i + 1, 0, FALSE) - 1)

\* C11: for a schema A whose field b references schema B of the same file: if B
\* is exported, the value of b is BInput in A's input text and BOutput in its
\* output text (followed by [] when array-wrapped); if B is not exported, the
\* value of b is B's expanded shape and no B type name appears in A's texts.
C11_ReferenceByNameIffExported ==
  pc = "returned" =>
    \A j \in 1..Len(results) :
      LET A == results[j]
          refs == sameFileRefs(call.file, A.schemaName)
      IN (DeclOf(call.file, A.schemaName).builder = "object" /\ A.schemaName # "") =>
         \A k \in 1..Len(refs) :
           LET fld == refs[k]
               B == fld.refSchema
               suffix == IF fld.isArray THEN <<"[", "]">> ELSE <<>>
           IN IF DeclOf(call.file, B).exported
              THEN /\ fieldValue(A.input, fld) = <<B \o "Input">> \o suffix
                   /\ fieldValue(A.output, fld) = <<B \o "Output">> \o suffix
              ELSE /\ fieldValue(A.input, fld) = Expand(call.file, B, "input") \o suffix
                   /\ fieldValue(A.output, fld) = Expand(call.file, B, "output") \o suffix
                   /\ {B \o "Input", B \o "Output"} \cap (Range(A.input) \cup Range(A.output)) = {}

\* the schema has a getter whose return expression names the schema itself
hasGetterRecursion(f, n) ==
  \E i \in 1..Len(DeclOf(f, n).getters) : DeclOf(f, n).getters[i].refSchema = n

\* no recursive getter field of the schema has `any` in its value
recursiveFieldsResolved(f, n, text) ==
  \A i \in 1..Len(DeclOf(f, n).getters) :
    LET g == DeclOf(f, n).getters[i]
        at == FirstIndex(text, LAMBDA t : t \in {g.fieldName \o ": ", g.fieldName \o "?: "})
    IN g.refSchema = n =>
         (at # 0 /\ "any" \notin Range(SubSeq(text, at + 1, scanValueEnd(text, at + 1, 0, FALSE) - 1)))

\* C13: a schema with getter-based recursion is resolved to input and output
\* texts that hold no `any` at the recursive fields: when no checker query
\* fails, the call returns its result and the recursive fields are free of `any`.
C13_RecursiveFieldsNeverAny ==
  (Finished /\ broken = {}) =>
    \A i \in 1..Len(schemas) :
      hasGetterRecursion(call.file, schemas[i].name) =>
        /\ pc = "returned"
        /\ \A j \in 1..Len(results) :
             results[j].schemaName = schemas[i].name =>
               /\ recursiveFieldsResolved(call.file, schemas[i].name, results[j].input)
               /\ recursiveFieldsResolved(call.file, schemas[i].name, results[j].output)

\* the relative imports of a file whose origin is not located: the module does
\* not resolve, or no file reached from it defines the imported name
unlocatedImports(f) ==
  {m \in Range(Imports(f)) :
     \/ resolveImportedFile(m) = ""
     \/ findSchemaSource(resolveImportedFile(m), m.importedName) = NotFound}

\* C15: an import whose origin cannot be located does not make the call raise:
\* it is in the map findImportedSchemas returned, with resolved = false, and its
\* name is none of the names that are substituted.
C15_UnlocatedImportRecordedUnresolved ==
  call.api # "none" =>
    \A m \in unlocatedImports(call.file) :
      /\ \E i \in 1..Len(imported) :
           imported[i].localName = m.localName /\ ~imported[i].resolved
      /\ \A i \in 1..Len(imported) :
           imported[i].localName = m.localName => ~imported[i].resolved

\* C16: a schema declared with an explicit type annotation gets a result whose
\* input text equals its output text, both the captured text of the annotation,
\* and while it is processed the normalize alias is not in its file.
C16_ExplicitTypeUsedForBoth ==
  /\ (pc \in {"loc_query", "loc_cleanup"} /\ schemas[idx].explicitType # "") =>
       getTypeAlias(fileStmts[call.file], "__Normalize") = 0
  /\ pc = "returned" =>
       \A i \in 1..Len(schemas) : \A j \in 1..Len(results) :
         (schemas[i].explicitType # "" /\ results[j].schemaName = schemas[i].name) =>
           /\ results[j].input = results[j].output
           /\ results[j].input = <<schemas[i].explicitType>>

\* the temporary aliases of a file: <<alias name, what it is an alias of>>
temporariesOf(f) ==
  {<<fileStmts[f][i].name, fileStmts[f][i].of>> :
     i \in {k \in 1..Len(fileStmts[f]) :
              fileStmts[f][k].kind = "type" /\ fileStmts[f][k].name \in TempAliasNames}}

\* the temporaries injectTemporaryTypes / injectExplicitType make for one schema
temporariesFor(schemaName, explicitType) ==
  IF explicitType # "" THEN {<<"__TempExplicit", explicitType>>}
  ELSE {<<"__Normalize", "">>, <<"__TempInput", schemaName>>, <<"__TempOutput", schemaName>>}

\* C17: at every moment at most one schema's temporary aliases exist in the
\* project: between injection and cleanup of a schema only the temporaries of
\* that schema exist, in its own file, and at every other moment (before the next
\* schema's injection, in the second pass, between calls) there are none.
C17_OneSchemasTemporariesAtATime ==
  \A f \in Files :
    temporariesOf(f) =
      CASE pc \in {"loc_query", "loc_cleanup"} /\ f = call.file ->
             temporariesFor(schemas[idx].name, schemas[idx].explicitType)
        [] pc \in {"imp_query", "imp_cleanup"} /\ f = imported[idx].sourceFilePath ->
             temporariesFor(imported[idx].originalName, "")
        [] OTHER -> {}

\* the second schema of a batch is being queried with its temporaries in place
C17_Witness ==
  /\ BatchCall /\ pc = "loc_query" /\ idx >= 2
  /\ schemas[idx - 1].explicitType = ""
  /\ temporariesOf(call.file) # {}

\* the position of the declaration of a schema in its file
declaredAt(f, n) == FirstIndex(Decls(f), LAMBDA d : d.name = n)

\* the field holds the type name of the schema it references, in both texts
substitutedByName(A, fld) ==
  LET suffix == IF fld.isArray THEN <<"[", "]">> ELSE <<>> IN
  /\ fieldValue(A.input, fld) = <<fld.refSchema \o "Input">> \o suffix
  /\ fieldValue(A.output, fld) = <<fld.refSchema \o "Output">> \o suffix

\* the references of a result to exported schemas of its file
exportedRefs(f, n) ==
  SelectSeq(sameFileRefs(f, n), LAMBDA fld : DeclOf(f, fld.refSchema).exported)

\* C19: substitution starts only when the raw texts of all schemas of the call
\* are there (no result exists before the second pass, and the second pass
\* starts with a raw text for every schema of the call), so that in a result a
\* reference to an exported schema declared later in the file is substituted by
\* the type name exactly when a reference to one declared earlier is.
C19_SubstitutionAfterAllRawTexts ==
  /\ results # <<>> => pc = "returned"
  /\ pc = "second" => \A i \in 1..Len(schemas) : schemas[i].name \in DOMAIN rawTypes
  /\ pc = "returned" =>
       \A j \in 1..Len(results) :
         LET A == results[j]
             refs == exportedRefs(call.file, A.schemaName)
             here == declaredAt(call.file, A.schemaName)
         IN (DeclOf(call.file, A.schemaName).builder = "object" /\ A.schemaName # "") =>
            \A k, l \in 1..Len(refs) :
              (/\ declaredAt(call.file, refs[k].refSchema) < here
               /\ declaredAt(call.file, refs[l].refSchema) > here
               /\ refs[k].refSchema \in DOMAIN rawTypes
               /\ refs[l].refSchema \in DOMAIN rawTypes) =>
                (substitutedByName(A, refs[k]) <=> substitutedByName(A, refs[l]))

\* a result holds the name of a schema declared before it and the name of one
\* declared after it
C19_Witness ==
  /\ pc = "returned"
  /\ \E j \in 1..Len(results) :
       \E k, l \in 1..Len(exportedRefs(call.file, results[j].schemaName)) :
         LET A == results[j]
             refs == exportedRefs(call.file, A.schemaName)
         IN /\ declaredAt(call.file, refs[k].refSchema) < declaredAt(call.file, A.schemaName)
            /\ declaredAt(call.file, refs[l].refSchema) > declaredAt(call.file, A.schemaName)
            /\ substitutedByName(A, refs[k]) /\ substitutedByName(A, refs[l])

\* the member array of the union holds an element that is no schema identifier
hasInlineMember(f, n) ==
  /\ DeclOf(f, n).name = n /\ n # ""
  /\ DeclOf(f, n).builder \in {"union", "discriminatedUnion"}
  /\ \E i \in 1..Len(DeclOf(f, n).elems) : ~isIdentifier(DeclOf(f, n).elems[i])

\* C20: a union whose member array holds anything but identifiers of named
\* schemas is no union reference: its result is not a join of names but what
\* the checker prints for it, every member included.
C20_MixedUnionKeepsEveryMember ==
  pc = "returned" =>
    \A j \in 1..Len(results) :
      hasInlineMember(call.file, results[j].schemaName) =>
        /\ analyzeUnionReferences(call.file, schemaNameSet(schemas, imported),
                                  results[j].schemaName) = <<>>
        /\ results[j].input = Expand(call.file, results[j].schemaName, "input")
        /\ results[j].output = Expand(call.file, results[j].schemaName, "output")

\* ------------------------------------------------- printing of the results
DeclOptionChoices == [{"inputOnly", "outputOnly", "unifySame"} -> BOOLEAN]

MapperChoices ==
  {NameMappingOptions(EmptyRecord, "", "", ""),
   NameMappingOptions(EmptyRecord, "Schema", "", ""),
   NameMappingOptions([k \in {"Dog"} |-> "Puppy"], "", "In", "")}

\* formatAsDeclaration(result, mapName(result.schemaName), options) on a result
\* the extractor returned
FormatDeclaration(i, mapping, options) ==
  /\ pc = "returned"
  /\ i \in 1..Len(results)
  /\ printed' = [called |-> TRUE, result |-> results[i],
                 typeName |-> mapName(mapping, results[i].schemaName),
                 options |-> options,
                 decls |-> formatAsDeclaration(results[i],
                             mapName(mapping, results[i].schemaName), options)]
  /\ UNCHANGED <<extractorVars, lookup, scan, resolver, cliState>>

NextPrint ==
  \/ \E f \in Files : ExtractAll(f)
  \/ ExtractorStep
  \/ \E i \in 1..Len(results) : \E mapping \in MapperChoices : \E options \in DeclOptionChoices :
       FormatDeclaration(i, mapping, options)

SpecPrint == Init /\ [][NextPrint]_vars

\* unification applies to the printed result
unifies(p) ==
  /\ optionSet(p.options, "unifySame")
  /\ p.result.input = p.result.output
  /\ Len(p.result.brands) = 0

declNames(decls) == [i \in 1..Len(decls) |-> decls[i].name]

\* C8: unification aside, formatAsDeclaration with inputOnly (and not the
\* mutually exclusive outputOnly) emits exactly one declaration, named inputName
\* and holding the input text; with outputOnly exactly one, named outputName and
\* holding the branded output text; with neither the input declaration
\* followed by the output declaration.
C8_OnlyOptionsSelectDeclarations ==
  (printed.called /\ ~unifies(printed)) =>
    LET inputOnly == printed.options["inputOnly"]
        outputOnly == printed.options["outputOnly"]
        inputDecl == Declaration(printed.typeName.inputName, printed.result.input,
                                 printed.result.isExported)
        outputDecl == Declaration(printed.typeName.outputName,
                                  applyBrands(printed.result.output, printed.result.brands),
                                  printed.result.isExported)
    IN /\ (inputOnly /\ ~outputOnly) => printed.decls = <<inputDecl>>
       /\ (outputOnly /\ ~inputOnly) => printed.decls = <<outputDecl>>
       /\ (~inputOnly /\ ~outputOnly) => printed.decls = <<inputDecl, outputDecl>>

\* a result whose input and output differ was printed with inputOnly alone
C8_Witness ==
  /\ printed.called /\ ~unifies(printed)
  /\ printed.options["inputOnly"] /\ ~printed.options["outputOnly"]
  /\ printed.result.input # printed.result.output
  /\ declNames(printed.decls) = <<printed.typeName.inputName>>

\* the index of the token `name: ` / `name?: ` of the property called name
propertyAt(text, name) == FirstIndex(text, LAMBDA t : t \in {name \o ": ", name \o "?: "})

\* the brand markers of a text
markersOf(text) == {i \in 1..Len(text) : \E b \in {"Tag", "PetId"} : text[i] = brandMarker(b)}

\* the marker of a brand stands where its path says: after the whole type for the
\* root, directly after the type of the property for a one-segment path
markerInPlace(text, brand) ==
  IF brand.fieldPath = <<>>
  THEN Len(text) >= 2 /\ text[Len(text)] = brandMarker(brand.brandName)
  ELSE LET at == propertyAt(text, brand.fieldPath[1])
       IN /\ at # 0 /\ at + 3 <= Len(text)
          /\ text[at + 2] = "&" /\ text[at + 3] = brandMarker(brand.brandName)

\* C14: the output declaration of a branded schema carries each brand's marker at
\* the brand's place (the whole type for a root-level brand, the type of the
\* property at the path for a field-level brand) and no marker anywhere else, and
\* the input declaration carries no marker.
C14_BrandMarkerAtItsPathOnly ==
  (printed.called /\ Len(printed.result.brands) > 0) =>
    \A k \in 1..Len(printed.decls) :
      LET d == printed.decls[k] IN
      /\ d.name = printed.typeName.inputName => markersOf(d.text) = {}
      /\ d.name = printed.typeName.outputName =>
           /\ \A b \in 1..Len(printed.result.brands) :
                markerInPlace(d.text, printed.result.brands[b])
           /\ Cardinality(markersOf(d.text)) = Len(printed.result.brands)

\* ------------------------------------------------------------ the CLI run
OnlyChoices == {EmptyRecord, [inputOnly |-> TRUE], [outputOnly |-> TRUE]}

MergeChoices == {EmptyRecord, [mergeSame |-> TRUE]}

OutChoices ==
  {EmptyRecord, [outFile |-> "types.ts"], [outDir |-> "types"],
   [outFile |-> "types.ts", outDir |-> "types"]}

NamingChoices ==
  {EmptyRecord, [suffix |-> "Schema"], [suffix |-> ""], [map |-> << <<"Dog", "">> >>]}

SchemaChoices ==
  {EmptyRecord, [schemas |-> <<"Shared">>], [schemas |-> <<"Missing">>],
   [schemas |-> <<"Dog", "">>]}

CliOptionChoices ==
  {a @@ b @@ c @@ d @@ e :
     a \in OnlyChoices, b \in MergeChoices, c \in OutChoices, d \in NamingChoices,
     e \in SchemaChoices}

FileConfigChoices ==
  {EmptyRecord, [inputOnly |-> TRUE], [map |-> [k \in {"Dog"} |-> ""]]}

CliFileChoices == {<<>>, <<"pets", "plain", "shared">>}

InitCLI ==
  /\ InitExtractor
  /\ InitPrinter
  /\ cliPc = "start"
  /\ cliFiles \in CliFileChoices
  /\ cliOptions \in CliOptionChoices
  /\ fileConfig \in FileConfigChoices
  /\ config = EmptyRecord
  /\ io = {}
  /\ resolvedFiles = <<>>
  /\ fileIdx = 1
  /\ fileResults = <<>>
  /\ allResults = <<>>
  /\ totalResults = 0
  /\ perFile = <<>>
  /\ cliError = ""
  /\ generated = <<>>

\* cli.ts 88-92: the config file is loaded and merged with the options
CliLoadConfig ==
  /\ cliPc = "start"
  /\ io' = io \cup {"config"}
  /\ config' = mergeCliWithConfig(cliOptions, fileConfig)
  /\ cliPc' = "loaded"
  /\ UNCHANGED <<cliFiles, cliOptions, fileConfig, resolvedFiles, fileIdx, fileResults,
                 allResults, totalResults, perFile, cliError, generated>>
  /\ UNCHANGED <<extractorVars, printed, lookup, scan, resolver>>

\* cli.ts 104
CliValidate ==
  /\ cliPc = "loaded"
  /\ IF validateOptions(config) # ""
     THEN cliPc' = "failed" /\ cliError' = "InvalidOption"
     ELSE cliPc' = "validated" /\ UNCHANGED cliError
  /\ UNCHANGED <<cliFiles, cliOptions, fileConfig, config, io, resolvedFiles, fileIdx,
                 fileResults, allResults, totalResults, perFile, generated>>
  /\ UNCHANGED <<extractorVars, printed, lookup, scan, resolver>>

\* cli.ts 108-120
CliResolveFiles ==
  /\ cliPc = "validated"
  /\ LET inputFiles == IF Len(cliFiles) > 0 THEN cliFiles
                       ELSE IF has(config, "include") THEN config["include"] ELSE <<>>
     IN IF Len(inputFiles) = 0
        THEN /\ cliPc' = "failed"
             /\ cliError' = "NoFilesMatched"
             /\ UNCHANGED <<io, resolvedFiles>>
        ELSE /\ io' = io \cup {"glob"}
             /\ resolvedFiles' = resolveInputFiles(inputFiles)
             /\ IF Len(resolveInputFiles(inputFiles)) = 0
                THEN cliPc' = "failed" /\ cliError' = "NoFilesMatched"
                ELSE cliPc' = "files" /\ UNCHANGED cliError
  /\ UNCHANGED <<cliFiles, cliOptions, fileConfig, config, fileIdx, fileResults, allResults,
                 totalResults, perFile, generated>>
  /\ UNCHANGED <<extractorVars, printed, lookup, scan, resolver>>

\* getFilteredResults up to the call of the extractor, cli.ts 273-290
CliProcessFile ==
  /\ cliPc = "files"
  /\ fileIdx <= Len(resolvedFiles)
  /\ io' = io \cup {"source"}
  /\ LET f == resolvedFiles[fileIdx] IN
     IF ~has(config, "schemas")
     THEN /\ extractAll(f)
          /\ cliPc' = "extracting"
          /\ UNCHANGED fileResults
     ELSE IF Len(schemasToExtract(config["schemas"], getSchemaNames(f))) = 0
     THEN /\ fileResults' = <<>>
          /\ cliPc' = "collect"
          /\ UNCHANGED extractorVars
     ELSE /\ extractMultiple(f, schemasToExtract(config["schemas"], getSchemaNames(f)))
          /\ cliPc' = "extracting"
          /\ UNCHANGED fileResults
  /\ UNCHANGED <<cliFiles, cliOptions, fileConfig, config, resolvedFiles, fileIdx, allResults,
                 totalResults, perFile, cliError, generated>>
  /\ UNCHANGED <<printed, lookup, scan, resolver>>

CliExtractorStep ==
  /\ cliPc = "extracting"
  /\ ExtractorStep

GeneratedFile(path, resultList) ==
  [path |-> path,
   content |-> generateDeclarationFile(resultList, createNameMapper(config),
                                       declOptionsOf(config))]

\* the body of the loops of runCLI once getFilteredResults is back, cli.ts 154-165
\* and 195-236; an error of the extractor ends the run
CliCollect ==
  /\ cliPc = "collect" \/ (cliPc = "extracting" /\ Finished)
  /\ LET got == IF cliPc = "collect" THEN fileResults ELSE results IN
     IF cliPc = "extracting" /\ pc = "thrown"
     THEN /\ cliPc' = "failed"
          /\ cliError' = "ExtractError"
          /\ UNCHANGED <<io, fileIdx, fileResults, allResults, totalResults, perFile, generated>>
     ELSE /\ cliPc' = "files"
          /\ fileIdx' = fileIdx + 1
          /\ fileResults' = got
          /\ perFile' = Append(perFile, Len(got))
          /\ UNCHANGED cliError
          /\ IF isSet(config, "outFile")
             THEN /\ allResults' = allResults \o got
                  /\ UNCHANGED <<io, totalResults, generated>>
             ELSE IF Len(got) = 0
             THEN UNCHANGED <<io, allResults, totalResults, generated>>
             ELSE /\ totalResults' = totalResults + Len(got)
                  /\ generated' = Append(generated, GeneratedFile(resolvedFiles[fileIdx], got))
                  /\ io' = IF isSet(config, "outDir") \/ isSet(config, "outPattern")
                           THEN io \cup {"write"} ELSE io
                  /\ UNCHANGED allResults
  /\ UNCHANGED <<cliFiles, cliOptions, fileConfig, config, resolvedFiles>>
  /\ UNCHANGED <<extractorVars, printed, lookup, scan, resolver>>

\* after the loop, cli.ts 167-189 and 238-241
CliFinish ==
  /\ cliPc = "files"
  /\ fileIdx > Len(resolvedFiles)
  /\ IF isSet(config, "outFile")
     THEN IF Len(allResults) = 0
          THEN /\ cliPc' = "failed"
               /\ cliError' = "NoSchemasFound"
               /\ UNCHANGED <<io, generated>>
          ELSE /\ cliPc' = "done"
               /\ generated' = Append(generated, GeneratedFile(config["outFile"], allResults))
               /\ io' = io \cup {"write"}
               /\ UNCHANGED cliError
     ELSE /\ IF totalResults = 0
             THEN cliPc' = "failed" /\ cliError' = "NoSchemasFound"
             ELSE cliPc' = "done" /\ UNCHANGED cliError
          /\ UNCHANGED <<io, generated>>
  /\ UNCHANGED <<cliFiles, cliOptions, fileConfig, config, resolvedFiles, fileIdx, fileResults,
                 allResults, totalResults, perFile>>
  /\ UNCHANGED <<extractorVars, printed, lookup, scan, resolver>>

NextCLI ==
  \/ CliLoadConfig
  \/ CliValidate
  \/ CliResolveFiles
  \/ CliProcessFile
  \/ CliExtractorStep
  \/ CliCollect
  \/ CliFinish

SpecCLI == InitCLI /\ [][NextCLI]_vars

\* ------------------------------------------------ properties of the CLI run
RECURSIVE Sum(_)
Sum(ns) == IF ns = <<>> THEN 0 ELSE Head(ns) + Sum(Tail(ns))

AllFilesProcessed == resolvedFiles # <<>> /\ Len(perFile) = Len(resolvedFiles)

\* the file holds none of the names of the schema filter
holdsNoFilteredName(f) ==
  \A i \in 1..Len(config["schemas"]) : config["schemas"][i] \notin Range(getSchemaNames(f))

\* C6: in a run with a schema filter a file that holds none of the filtered
\* names contributes zero results and raises nothing when it is processed; the
\* "no schemas found" error is raised only once every resolved file has been
\* processed, and a run that has processed every file ends with that error
\* exactly when the results of all files number zero.
C6_NoSchemasFoundOnlyAtTheEnd ==
  /\ cliError = "NoSchemasFound" => AllFilesProcessed
  /\ (AllFilesProcessed /\ cliPc \in {"done", "failed"}) =>
       (cliError = "NoSchemasFound" <=> Sum(perFile) = 0)
  /\ has(config, "schemas") =>
       /\ \A i \in 1..Len(perFile) :
            holdsNoFilteredName(resolvedFiles[i]) => perFile[i] = 0
       /\ (cliError # "" /\ resolvedFiles # <<>> /\ ~AllFilesProcessed) =>
            ~holdsNoFilteredName(resolvedFiles[fileIdx])
  /\ Sum(perFile) = IF isSet(config, "outFile") THEN Len(allResults) ELSE totalResults

\* a filtered run over three files, none holding a filtered name, ended with the error
C6_Witness ==
  /\ cliError = "NoSchemasFound"
  /\ has(config, "schemas")
  /\ perFile = <<0, 0, 0>>

\* what the user gave for an option: the command line first, then the config file
given(key) ==
  IF key \in DOMAIN cliOptions THEN cliOptions[key] ELSE fileConfig[key]

isGiven(key) == key \in DOMAIN cliOptions \/ key \in DOMAIN fileConfig

\* the options of the run conflict or are malformed
Malformed ==
  \/ isGiven("inputOnly") /\ given("inputOnly") /\ isGiven("outputOnly") /\ given("outputOnly")
  \/ isGiven("suffix") /\ trim(given("suffix")) = ""
  \/ /\ isGiven("outFile")
     /\ isGiven("outDir") \/ isGiven("outPattern")
  \/ /\ "map" \in DOMAIN cliOptions
     /\ \E i \in 1..Len(cliOptions["map"]) :
          trim(cliOptions["map"][i][1]) = "" \/ trim(cliOptions["map"][i][2]) = ""
  \/ /\ "map" \notin DOMAIN cliOptions /\ "map" \in DOMAIN fileConfig
     /\ \E k \in DOMAIN fileConfig["map"] : trim(k) = "" \/ trim(fileConfig["map"][k]) = ""
  \/ /\ isGiven("schemas")
     /\ \E i \in 1..Len(given("schemas")) : trim(given("schemas")[i]) = ""

\* C7: a run whose options conflict or are malformed is rejected with the
\* invalid-option error before any file I/O: it reads no config and no source
\* file, resolves no glob, extracts nothing and writes nothing, and it ends with
\* the invalid-option error.
C7_RejectedBeforeAnyIO ==
  Malformed =>
    /\ io = {}
    /\ cliPc \in {"start", "loaded", "failed"}
    /\ cliPc = "failed" => cliError = "InvalidOption"

\* the result is declared by the single declaration named unifiedName
isUnified(d) ==
  Len(d.decls) = 1
    /\ d.decls[1].name = mapName(createNameMapper(config), d.result.schemaName).unifiedName

\* C9: when the configuration asks for unification, a result is emitted as the
\* single declaration named unifiedName if and only if its input text equals its
\* output text and it has no brands.
C9_UnifiedIffSameAndBrandless ==
  truthy(config, "mergeSame") =>
    \A g \in 1..Len(generated) :
      \A k \in 1..Len(generated[g].content.declarations) :
        LET d == generated[g].content.declarations[k] IN
        isUnified(d) <=> (d.result.input = d.result.output /\ Len(d.result.brands) = 0)

\* the declarations of the generated file that belong to the schema
declarationsOf(g, n) ==
  SelectSeq(generated[g].content.declarations, LAMBDA d : d.result.schemaName = n)

\* the generated file covers every schema of file f
coversFile(g, f) ==
  /\ ~has(config, "schemas")
  /\ generated[g].path = f \/ (isSet(config, "outFile") /\ f \in Range(resolvedFiles))

\* C12: for a file with a non-exported schema X and a re-export
\* `export { X as Y }`, the generated declarations hold exactly one declaration
\* set for the schema, under the exported name Y, and none under X.
C12_ReexportDeclaredOnceUnderAlias ==
  \A g \in 1..Len(generated) : \A f \in Files : \A k \in 1..Len(Reexports(f)) :
    LET X == Reexports(f)[k].name
        Y == Reexports(f)[k].alias
        typeName == mapName(createNameMapper(config), Y)
    IN (coversFile(g, f) /\ X # Y /\ isZodSchema(DeclOf(f, X)) /\ ~DeclOf(f, X).exported) =>
         /\ Len(declarationsOf(g, Y)) = 1
         /\ Range(declNames(declarationsOf(g, Y)[1].decls))
              \subseteq {typeName.inputName, typeName.outputName, typeName.unifiedName}
         /\ declarationsOf(g, Y)[1].decls # <<>>
         /\ Len(declarationsOf(g, X)) = 0

\* a run without a filter generated the declarations of the file with the re-export
C12_Witness ==
  /\ cliPc = "done"
  /\ \E g \in 1..Len(generated) :
       coversFile(g, "shared") /\ Len(declarationsOf(g, "Aliased")) = 1

\* ------------------------------------------------- the re-export lookup
LookupNames == {"Shared", "Common", "Ghost", "Aliased"}

\* findSchemaSource(resolvedSourceFile, importedName, project) as
\* findImportedSchemas starts it, with a fresh visited set
LookupStart(f, schemaName) ==
  /\ lookup.status # "running"
  /\ lookup' = startLookup(f, schemaName)
  /\ UNCHANGED <<extractorVars, printed, scan, resolver, cliState>>

LookupStep ==
  /\ lookup.status = "running"
  /\ lookup' = lookupStep(lookup)
  /\ UNCHANGED <<extractorVars, printed, scan, resolver, cliState>>

NextResolve ==
  \/ \E f \in Modules : \E schemaName \in LookupNames : LookupStart(f, schemaName)
  \/ LookupStep

SpecResolve == Init /\ [][NextResolve]_vars

\* the export declarations the frames of the stack have not looked at yet
RECURSIVE declsLeft(_)
declsLeft(stack) ==
  IF stack = << >> THEN 0
  ELSE Len(ExportsFrom(Head(stack).file)) + 1 - Head(stack).decl + declsLeft(Tail(stack))

MostExports ==
  CHOOSE n \in 0..5 : /\ \A m \in Modules : Len(ExportsFrom(m)) <= n
                      /\ \E m \in Modules : Len(ExportsFrom(m)) = n

\* a natural number that bounds the steps a running lookup has left: the files
\* not entered yet weigh more than all the declarations of all the frames
lookupMeasure(l) ==
  (2 * Cardinality(Modules) * (MostExports + 1) + 3) * Cardinality(Modules \ l.visited)
  + 2 * declsLeft(l.stack)
  + (IF l.ret = "none" THEN 1 ELSE 0)
  + (IF l.status = "running" THEN 1 ELSE 0)

noFileTwice(entered) ==
  \A i, j \in 1..Len(entered) : entered[i] = entered[j] => i = j

\* C18: a lookup of findSchemaSource terminates on every module graph, cyclic
\* re-export chains included: every step of the lookup lowers a natural-number
\* measure, and within one lookup no file is entered twice.
C18_LookupTerminatesEnteringOnce ==
  /\ [][LookupStep => lookupMeasure(lookup') < lookupMeasure(lookup)]_vars
  /\ [](noFileTwice(lookup.entered) /\ lookupMeasure(lookup) >= 0)

\* a lookup that started in the barrel file went round the cycle of the two
\* barrels, was turned back at the file it came from, and ended
C18_Witness ==
  /\ lookup.status = "done"
  /\ Len(lookup.entered) >= 2
  /\ lookup.entered[1] = "index" /\ lookup.entered[2] = "models"
  /\ "index" \in Range(lookup.blocked)

\* the <<file, name>> pairs one re-export away from a pair: the files a star
\* export names, with the same name, and the files of the named exports that
\* export the name, with the original name
reexportedFrom(pair) ==
  IF pair[1] \notin Modules THEN {}
  ELSE {<<resolveModuleSpecifier(pair[1], ExportsFrom(pair[1])[k].module),
          IF ExportsFrom(pair[1])[k].namedExports = << >> THEN pair[2]
          ELSE ExportsFrom(pair[1])[k].namedExports[
                 matchingExport(ExportsFrom(pair[1])[k], pair[2])].name>> :
          k \in {d \in 1..Len(ExportsFrom(pair[1])) :
                   /\ ExportsFrom(pair[1])[d].module # ""
                   /\ resolveModuleSpecifier(pair[1], ExportsFrom(pair[1])[d].module) # ""
                   /\ \/ ExportsFrom(pair[1])[d].namedExports = << >>
                      \/ matchingExport(ExportsFrom(pair[1])[d], pair[2]) # 0}}

RECURSIVE reexportClosure(_, _)
reexportClosure(pairs, more) ==
  IF more \subseteq pairs THEN pairs
  ELSE reexportClosure(pairs \cup more, UNION {reexportedFrom(p) : p \in pairs \cup more})

\* the definitions a name imported from a file reaches through re-exports
definitionsReached(f, importedName) ==
  {p \in reexportClosure({}, {<<f, importedName>>}) : definesSchema(p[1], p[2])}

\* C26: a lookup for an imported name that reaches a schema definition through
\* some chain of re-exports ends with the file and the original name of such a
\* definition, whatever the order of the export declarations and whatever
\* files the lookup visited before under another name or by another branch.
C26_ReachableDefinitionIsFound ==
  (lookup.status = "done"
     /\ definitionsReached(lookup.entered[1], lookup.importedName) # {}) =>
    /\ lookup.ret = "found"
    /\ <<lookup.result.sourceFile, lookup.result.schemaName>>
         \in definitionsReached(lookup.entered[1], lookup.importedName)

\* ---------------------------------------------- the import resolver's cache
ImportedSchemaInfo(localName, originalName, sourceFilePath, resolved) ==
  [localName |-> localName, originalName |-> originalName,
   sourceFilePath |-> sourceFilePath, resolved |-> resolved]

\* this.processedFiles.add(filePath) without the addition
markProcessed_Forgets(processedFiles, filePath) == processedFiles

\* this.processedFiles.add(filePath)
markProcessed(processedFiles, filePath) == processedFiles \cup {filePath}

\* the keys of byFile in insertion order: the files of the resolved entries
RECURSIVE byFileKeys(_, _)
byFileKeys(infos, keys) ==
  IF infos = << >> THEN keys
  ELSE byFileKeys(Tail(infos),
                  IF ~Head(infos).resolved \/ Head(infos).sourceFilePath \in Range(keys)
                  THEN keys ELSE Append(keys, Head(infos).sourceFilePath))

\* extractType(sourceFile, originalName) inside its try block: the entry of the
\* result, none when the extraction throws
typesOfSchema(schemaInfo, brokenSet) ==
  IF <<schemaInfo.sourceFilePath, schemaInfo.originalName>> \in brokenSet THEN << >>
  ELSE << [localName |-> schemaInfo.localName,
           input |-> Expand(schemaInfo.sourceFilePath, schemaInfo.originalName, "input"),
           output |-> Expand(schemaInfo.sourceFilePath, schemaInfo.originalName, "output")] >>

\* the body of the loop over byFile for one file that is not skipped;
\* project.getSourceFile gives nothing for a path that is no file of the project
typesOfFile(filePath, schemaInfos, brokenSet) ==
  IF filePath \notin Files THEN << >>
  ELSE Concat([k \in 1..Len(schemaInfos) |-> typesOfSchema(schemaInfos[k], brokenSet)])

\* the loop over byFile: r holds processedFiles, the result and the files whose
\* schemas were extracted
RECURSIVE extractByFile(_, _, _, _)
extractByFile(keys, infos, brokenSet, r) ==
  IF keys = << >> THEN r
  ELSE extractByFile(Tail(keys), infos, brokenSet,
         IF Head(keys) \in r.processedFiles THEN r
         ELSE [processedFiles |-> markProcessed(r.processedFiles, Head(keys)),
               result |-> r.result \o
                 typesOfFile(Head(keys),
                             SelectSeq(infos, LAMBDA info :
                                         info.resolved /\ info.sourceFilePath = Head(keys)),
                             brokenSet),
               extracted |-> Append(r.extracted, Head(keys))])

extractImportedSchemaTypes(importedSchemas, processedFiles, brokenSet) ==
  extractByFile(byFileKeys(importedSchemas, << >>), importedSchemas, brokenSet,
                [processedFiles |-> processedFiles, result |-> << >>, extracted |-> << >>])

\* the imported schema maps handed to the resolver: what findImportedSchemas
\* returns for the files of the project, and maps over two source files
ImportedInfoChoices ==
  { ImportedSchemaInfo("Shared", "Shared", "shared", TRUE),
    ImportedSchemaInfo("Helper", "Helper", "shared", TRUE),
    ImportedSchemaInfo("Dog", "Dog", "pets", TRUE),
    ImportedSchemaInfo("Lost", "Lost", "nowhere", FALSE) }

ImportedSchemaMaps ==
  {findImportedSchemas(f) : f \in Files}
  \cup {m \in SeqsUpTo(ImportedInfoChoices, 2) :
          \A i, j \in 1..Len(m) : m[i].localName = m[j].localName => i = j}

countExtractions(extractions, extracted) ==
  [f \in DOMAIN extractions |->
     extractions[f] + Cardinality({k \in 1..Len(extracted) : extracted[k] = f})]

\* resolver.extractImportedSchemaTypes(importedSchemas, project, extractType)
ExtractImportedSchemaTypes(importedSchemas) ==
  /\ Len(resolver.log) < MaxCalls
  /\ resolver' =
       [processedFiles |->
          extractImportedSchemaTypes(importedSchemas, resolver.processedFiles, broken).processedFiles,
        log |-> Append(resolver.log, "extract"),
        extractions |->
          countExtractions(resolver.extractions,
            extractImportedSchemaTypes(importedSchemas, resolver.processedFiles, broken).extracted),
        last |-> [call |-> "extract", importedSchemas |-> importedSchemas,
                  before |-> resolver.processedFiles,
                  result |-> extractImportedSchemaTypes(importedSchemas, resolver.processedFiles,
                                                        broken).result]]
  /\ UNCHANGED <<extractorVars, printed, lookup, scan, cliState>>

\* resolver.clearCache()
ClearCache ==
  /\ Len(resolver.log) < MaxCalls
  /\ resolver' = [processedFiles |-> {}, log |-> Append(resolver.log, "clear"),
                  extractions |-> [f \in Modules |-> 0], last |-> [call |-> "clear"]]
  /\ UNCHANGED <<extractorVars, printed, lookup, scan, cliState>>

\* resolver.findImportedSchemas(sourceFile, project), which does not read the cache
FindImportedSchemas(f) ==
  /\ Len(resolver.log) < MaxCalls
  /\ resolver' = [resolver EXCEPT !.log = Append(@, "find"),
                                  !.last = [call |-> "find", file |-> f,
                                            result |-> findImportedSchemas(f)]]
  /\ UNCHANGED <<extractorVars, printed, lookup, scan, cliState>>

NextCache ==
  \/ \E importedSchemas \in ImportedSchemaMaps : ExtractImportedSchemaTypes(importedSchemas)
  \/ ClearCache
  \/ \E f \in Files : FindImportedSchemas(f)

SpecCache == Init /\ [][NextCache]_vars

\* the entries a call must return: one for every resolved schema of a file of
\* the project that was not processed before and whose extraction does not throw
entriesDue(importedSchemas, before, brokenSet) ==
  {importedSchemas[k].localName :
     k \in {i \in 1..Len(importedSchemas) :
              /\ importedSchemas[i].resolved
              /\ importedSchemas[i].sourceFilePath \in Files \ before
              /\ <<importedSchemas[i].sourceFilePath, importedSchemas[i].originalName>>
                   \notin brokenSet}}

\* C28: over every sequence of calls on one ImportResolver, the schemas of a
\* file are extracted at most once since the last clearCache; a call of
\* extractImportedSchemaTypes returns exactly the entries of the files not
\* processed before it (so all of them right after clearCache, which empties
\* processedFiles), and findImportedSchemas returns the map of the file
\* whatever processedFiles holds.
C28_ExtractedOncePerCacheLifetime ==
  /\ \A f \in Modules : resolver.extractions[f] <= 1
  /\ resolver.last.call = "extract" =>
       {resolver.last.result[k].localName : k \in 1..Len(resolver.last.result)}
         = entriesDue(resolver.last.importedSchemas, resolver.last.before, broken)
  /\ resolver.last.call = "clear" => resolver.processedFiles = {}
  /\ resolver.last.call = "find" => resolver.last.result = findImportedSchemas(resolver.last.file)

\* a file was extracted, the cache was cleared and the same file was extracted
\* again, with entries
C28_Witness ==
  /\ resolver.log = <<"extract", "clear", "extract">>
  /\ resolver.last.before = {}
  /\ resolver.last.result # << >>
  /\ resolver.extractions["shared"] = 1

\* a call on a file that was already processed returned nothing for it
C28_WitnessSkipped ==
  /\ resolver.last.call = "extract"
  /\ "shared" \in resolver.last.before
  /\ \E k \in 1..Len(resolver.last.importedSchemas) :
       resolver.last.importedSchemas[k].sourceFilePath = "shared"
  /\ resolver.last.result = << >>

\* ------------------------------------------------------- the text scanners
\* A text is a sequence of characters; a run of letters that no scanner tells
\* apart (a word, a marker such as `z.ZodType<`) is written as one element.
zodTypePatterns ==
  <<"z.ZodType<", "z.ZodSchema<", "z.ZodEffects<", "ZodType<", "ZodSchema<", "ZodEffects<">>

\* the character U+0060, which a string of this module cannot hold
Backtick == "U+0060"

\* String.prototype.trim on a text
RECURSIVE trimStart(_)
trimStart(text) ==
  IF text # <<>> /\ Head(text) = " " THEN trimStart(Tail(text)) ELSE text

RECURSIVE trimEnd(_)
trimEnd(text) ==
  IF text # <<>> /\ text[Len(text)] = " " THEN trimEnd(SubSeq(text, 1, Len(text) - 1))
  ELSE text

trimText(text) == trimEnd(trimStart(text))

\* the local variables of extractFirstTypeParameter before its loop; positions
\* count from 1, so the character after the marker is at 2
firstTypeParameterScan(nodeText, startIdx) ==
  [fn |-> "extractExplicitType", typeText |-> nodeText, startIdx |-> startIdx,
   endIdx |-> startIdx, depth |-> 1, inString |-> FALSE, stringChar |-> "",
   status |-> "running"]

\* the string-literal tracking of one turn of the loop
trackStringLiteral(s, char, prevChar) ==
  IF char \in {"\"", "'", Backtick} /\ prevChar # "\\"
  THEN IF ~s.inString THEN [s EXCEPT !.inString = TRUE, !.stringChar = char]
       ELSE IF char = s.stringChar THEN [s EXCEPT !.inString = FALSE, !.stringChar = ""]
       ELSE s
  ELSE s

\* the bracket counting of one turn of the loop, after the string tracking
trackBrackets(s, char) ==
  IF s.inString THEN [s EXCEPT !.endIdx = @ + 1]
  ELSE IF char \in {"<", "{", "[", "("} THEN [s EXCEPT !.depth = @ + 1, !.endIdx = @ + 1]
  ELSE IF char \in {">", "}", "]", ")"}
       THEN IF s.depth = 1 THEN [s EXCEPT !.depth = 0, !.status = "done"]
            ELSE [s EXCEPT !.depth = @ - 1, !.endIdx = @ + 1]
  ELSE IF char = "," /\ s.depth = 1 THEN [s EXCEPT !.status = "done"]
  ELSE [s EXCEPT !.endIdx = @ + 1]

\* one turn of `while (endIdx < typeText.length && depth > 0)`
firstTypeParameterTurn(s) ==
  IF s.endIdx <= Len(s.typeText) /\ s.depth > 0
  THEN trackBrackets(
         trackStringLiteral(s, s.typeText[s.endIdx], s.typeText[s.endIdx - 1]),
         s.typeText[s.endIdx])
  ELSE [s EXCEPT !.status = "done"]

\* what extractFirstTypeParameter returns after its loop; << >> is undefined
firstTypeParameterOf(s) ==
  IF s.endIdx > s.startIdx THEN trimText(SubSeq(s.typeText, s.startIdx, s.endIdx - 1))
  ELSE <<>>

RECURSIVE runFirstTypeParameter(_)
runFirstTypeParameter(s) ==
  IF s.status = "done" THEN firstTypeParameterOf(s)
  ELSE runFirstTypeParameter(firstTypeParameterTurn(s))

extractFirstTypeParameter(nodeText, startIdx) ==
  runFirstTypeParameter(firstTypeParameterScan(nodeText, startIdx))

\* extractExplicitType on the text of the declaration's type node: the marker
\* the text starts with, then the scan of what follows it
matchedPattern(nodeText) ==
  nodeText # <<>> /\ \E i \in 1..Len(zodTypePatterns) : Head(nodeText) = zodTypePatterns[i]

\* the type arguments T a declaration is annotated with: a name, a nested
\* generic, an object literal holding a tuple, string literals holding
\* brackets and commas, and function types
ExplicitTypes ==
  { <<"A">>,
    <<"M", "<", "A", ",", " ", "B", ">">>,
    <<"{", " ", "a", ":", " ", "[", "A", ",", " ", "B", "]", ";", " ", "}">>,
    <<"\"", "<", ",", "\"">>,
    <<"'", "\\", "'", ">", "'", " ", "|", " ", "A">>,
    <<"(", "a", ":", " ", "A", ")", " ", "=", ">", " ", "B">>,
    <<"{", " ", "f", ":", " ", "(", ")", " ", "=", ">", " ", "A", ";", " ", "}">> }

\* what follows T inside the marker: nothing, or further type arguments
TypeArgumentRests == { <<>>, <<",", " ", "z.ZodTypeDef", ",", " ", "I">> }

TypeNodeMarkers == Range(zodTypePatterns) \cup {"Promise<"}

typeNodeText(marker, T, rest) == <<marker>> \o T \o rest \o <<">">>

\* extractExplicitType starts on a declaration `const S: <marker>T<rest>> = ...`
StartExplicitType(marker, T, rest) ==
  /\ scan.fn = "none"
  /\ scan' = IF matchedPattern(typeNodeText(marker, T, rest))
             THEN firstTypeParameterScan(typeNodeText(marker, T, rest), 2)
                    @@ [T |-> T, explicitType |-> <<>>]
             ELSE [fn |-> "extractExplicitType", typeText |-> typeNodeText(marker, T, rest),
                   status |-> "done", T |-> <<>>, explicitType |-> <<>>]
  /\ UNCHANGED <<extractorVars, printed, lookup, resolver, cliState>>

\* one turn of the loop; the turn that ends it also computes the return value
ExplicitTypeTurn ==
  /\ scan.fn = "extractExplicitType" /\ scan.status = "running"
  /\ scan' = [firstTypeParameterTurn(scan) EXCEPT
                !.explicitType = IF firstTypeParameterTurn(scan).status = "done"
                                 THEN firstTypeParameterOf(firstTypeParameterTurn(scan))
                                 ELSE <<>>]
  /\ UNCHANGED <<extractorVars, printed, lookup, resolver, cliState>>

\* ---- GetterResolver.resolveAnyTypes on the type texts of the extractor, where
\* a property name with its `: ` or `?: ` is one element
tokAt(text, i) == IF i \in 1..Len(text) THEN text[i] ELSE ""

\* String.indexOf(pattern, from) for a property pattern, 0 when there is none
nextProperty(typeStr, pattern, from) ==
  IF \E i \in from..Len(typeStr) : endsWithPattern(typeStr[i], pattern)
  THEN CHOOSE i \in from..Len(typeStr) :
         /\ endsWithPattern(typeStr[i], pattern)
         /\ \A j \in from..(i - 1) : ~endsWithPattern(typeStr[j], pattern)
  ELSE 0

\* anyIdx of replaceFieldAny: `any`, or `readonly any`, at the start of the value
anyIndex(typeStr, valueStart) ==
  IF tokAt(typeStr, valueStart) = "readonly"
  THEN IF tokAt(typeStr, valueStart + 1) = "any" THEN valueStart + 1 ELSE 0
  ELSE IF tokAt(typeStr, valueStart) = "any" THEN valueStart ELSE 0

hasArrayBrackets(typeStr, anyIdx) ==
  tokAt(typeStr, anyIdx + 1) = "[" /\ tokAt(typeStr, anyIdx + 2) = "]"

\* the splice of one occurrence: `any` and its `[]` become the replacement
spliceAny(typeStr, anyIdx, typeName, isArray) ==
  IF anyIdx = 0 THEN typeStr
  ELSE SubSeq(typeStr, 1, anyIdx - 1)
       \o <<typeName>>
       \o (IF isArray \/ hasArrayBrackets(typeStr, anyIdx) THEN <<"[", "]">> ELSE <<>>)
       \o SubSeq(typeStr, anyIdx + (IF hasArrayBrackets(typeStr, anyIdx) THEN 3 ELSE 1),
                 Len(typeStr))

\* the while loop of replaceFieldAny for one pattern, at being the occurrence
\* it is at (0: none left)
RECURSIVE replaceFieldAnyFrom(_, _, _, _, _)
replaceFieldAnyNext(spliced, pattern, typeName, isArray, at) ==
  replaceFieldAnyFrom(spliced, pattern, typeName, isArray,
                      nextProperty(spliced, pattern, at + 1))

replaceFieldAnyFrom(typeStr, pattern, typeName, isArray, at) ==
  IF at = 0 THEN typeStr
  ELSE replaceFieldAnyNext(spliceAny(typeStr, anyIndex(typeStr, at + 1), typeName, isArray),
                           pattern, typeName, isArray, at)

replaceFieldAnyFor(typeStr, pattern, typeName, isArray) ==
  replaceFieldAnyFrom(typeStr, pattern, typeName, isArray, nextProperty(typeStr, pattern, 1))

replaceFieldAny(typeStr, fieldName, typeName, isArray) ==
  replaceFieldAnyFor(replaceFieldAnyFor(typeStr, fieldName \o ": ", typeName, isArray),
                     fieldName \o "?: ", typeName, isArray)

\* how far behind the brace replaceRecordAny accepts the index signature: the
\* 20 characters of the source hold the signature itself or one word before it
IndexSignatureWindow == 2

\* indexSigStart of replaceRecordAny, 0 when there is none in the window
indexSignatureStart(typeStr, afterBrace) ==
  IF \E i \in afterBrace..Len(typeStr) : typeStr[i] = "[x: string]:"
  THEN CHOOSE i \in afterBrace..Len(typeStr) :
         /\ typeStr[i] = "[x: string]:"
         /\ \A j \in afterBrace..(i - 1) : typeStr[j] # "[x: string]:"
  ELSE 0

spliceRecordAny(typeStr, afterBrace, indexSigStart, typeName) ==
  IF /\ indexSigStart # 0
     /\ indexSigStart < afterBrace + IndexSignatureWindow
     /\ tokAt(typeStr, indexSigStart + 1) = "any"
  THEN SubSeq(typeStr, 1, indexSigStart) \o <<typeName>>
       \o SubSeq(typeStr, indexSigStart + 2, Len(typeStr))
  ELSE typeStr

\* the property pattern of replaceRecordAny ends with the opening brace
nextRecordProperty(typeStr, pattern, from) ==
  IF \E i \in from..Len(typeStr) : endsWithPattern(typeStr[i], pattern) /\ tokAt(typeStr, i + 1) = "{"
  THEN CHOOSE i \in from..Len(typeStr) :
         /\ endsWithPattern(typeStr[i], pattern) /\ tokAt(typeStr, i + 1) = "{"
         /\ \A j \in from..(i - 1) :
              ~(endsWithPattern(typeStr[j], pattern) /\ tokAt(typeStr, j + 1) = "{")
  ELSE 0

RECURSIVE replaceRecordAnyFrom(_, _, _, _)
replaceRecordAnyNext(spliced, pattern, typeName, at) ==
  replaceRecordAnyFrom(spliced, pattern, typeName, nextRecordProperty(spliced, pattern, at + 1))

replaceRecordAnyFrom(typeStr, pattern, typeName, at) ==
  IF at = 0 THEN typeStr
  ELSE replaceRecordAnyNext(
         spliceRecordAny(typeStr, at + 2, indexSignatureStart(typeStr, at + 2), typeName),
         pattern, typeName, at)

replaceRecordAnyFor(typeStr, pattern, typeName) ==
  replaceRecordAnyFrom(typeStr, pattern, typeName, nextRecordProperty(typeStr, pattern, 1))

replaceRecordAny(typeStr, fieldName, typeName) ==
  replaceRecordAnyFor(replaceRecordAnyFor(typeStr, fieldName \o ": ", typeName),
                      fieldName \o "?: ", typeName)

\* one turn of `for (const [fieldName, info] of getterFields)`
resolveAnyOfField(result, info, typeName) ==
  IF ~info.isSelfRef THEN result
  ELSE replaceFieldAny(
         IF info.isRecord THEN replaceRecordAny(result, info.fieldName, typeName) ELSE result,
         info.fieldName, typeName, info.isArray)

\* the body of resolveAnyTypes when its third argument is the getter map
RECURSIVE resolveAnyTypesLoop(_, _, _)
resolveAnyTypesLoop(typeStr, getterFields, typeName) ==
  IF getterFields = <<>> THEN typeStr
  ELSE resolveAnyTypesLoop(resolveAnyOfField(typeStr, Head(getterFields), typeName),
                           Tail(getterFields), typeName)

\* a property of an object type text, and the text of a list of properties
Property(n, opt, v) == [name |-> n, isOptional |-> opt, value |-> v]

propertyText(prop) ==
  <<prop.name \o (IF prop.isOptional THEN "?: " ELSE ": ")>> \o prop.value \o <<";">>

objectText(props) == <<"{">> \o Concat([i \in 1..Len(props) |-> propertyText(props[i])]) \o <<"}">>

\* the properties the checker prints for a schema with getters: the placeholder
\* in its forms, and properties that keep their text
AnyProperties ==
  { Property("pet", FALSE, <<"any">>),
    Property("pet", TRUE, <<"any", "[", "]">>),
    Property("pet", FALSE, <<"readonly", "any", "[", "]">>),
    Property("pet", FALSE, <<"{", "[x: string]:", "any", "}">>),
    Property("pet", FALSE, <<"string">>),
    Property("carpet", FALSE, <<"any">>),
    Property("carpet", TRUE, <<"string">>),
    Property("value", FALSE, <<"string">>) }

distinctNames(props) == \A i, j \in 1..Len(props) : props[i].name = props[j].name => i = j

AnyObjects == {props \in SeqsUpTo(AnyProperties, 2) : distinctNames(props)}

GetterInfos ==
  { [fieldName |-> "pet", refSchema |-> "Node", isArray |-> arr, isRecord |-> rec,
     isOptional |-> FALSE, isSelfRef |-> TRUE] : arr \in BOOLEAN, rec \in BOOLEAN }
  \cup { [fieldName |-> n, refSchema |-> "Other", isArray |-> FALSE, isRecord |-> FALSE,
          isOptional |-> FALSE, isSelfRef |-> FALSE] : n \in {"pet", "carpet"} }

GetterMaps == {<<>>} \cup {gs \in SeqsUpTo(GetterInfos, 2) :
                             \A i, j \in 1..Len(gs) : gs[i].fieldName = gs[j].fieldName => i = j}

\* resolveAnyTypes(typeStr, schemaName, getterFields, typeName) on a printed text
ResolveAnyTypes(props, getterFields) ==
  /\ scan.fn = "none"
  /\ scan' = [fn |-> "resolveAnyTypes", status |-> "done", props |-> props,
              getterFields |-> getterFields, typeName |-> "Node",
              result |-> resolveAnyTypesLoop(objectText(props), getterFields, "Node")]
  /\ UNCHANGED <<extractorVars, printed, lookup, resolver, cliState>>

\* ---- the printer's prettifyType on a text with its whitespace
\* the default indent of the printer, two spaces, as one element
Indent == "  "

indentRepeat(depth) == [k \in 1..depth |-> Indent]

endsWithText(text, suffix) ==
  Len(suffix) <= Len(text) /\ SubSeq(text, Len(text) - Len(suffix) + 1, Len(text)) = suffix

FieldDescription(path, description) == [path |-> path, description |-> description]

createTsDocComment(description, indentStr) ==
  indentStr \o <<"/** " \o description \o " */", "\n">>

RECURSIVE joinText(_, _)
joinText(words, sep) ==
  IF words = <<>> THEN ""
  ELSE IF Len(words) = 1 THEN Head(words)
  ELSE Head(words) \o sep \o joinText(Tail(words), sep)

\* descriptions.find((d) => d.path === path)?.description, "" when undefined
descriptionAt(descriptions, path) ==
  IF \E k \in 1..Len(descriptions) : descriptions[k].path = path
  THEN descriptions[CHOOSE k \in 1..Len(descriptions) :
                      /\ descriptions[k].path = path
                      /\ \A j \in 1..(k - 1) : descriptions[j].path # path].description
  ELSE ""

getFieldDescription(fieldName, prefix, descriptions) ==
  descriptionAt(descriptions, IF prefix # "" THEN prefix \o "." \o fieldName ELSE fieldName)

createParserState(typeStr, descriptions) ==
  [fn |-> "prettifyType", status |-> "running", typeStr |-> typeStr,
   descriptions |-> descriptions, i |-> 1,
   result |-> <<>>, depth |-> 0, inString |-> FALSE, stringChar |-> "",
   currentFieldName |-> <<>>, capturingFieldName |-> FALSE, pathStack |-> <<>>,
   out |-> <<>>]

\* handleOpenBrace: the field name is cleared before the test that pushes it
pushCurrentField(s) ==
  IF s.depth > 1 /\ s.currentFieldName # <<>>
  THEN [s EXCEPT !.pathStack = Append(@, joinText(s.currentFieldName, ""))]
  ELSE s

handleOpenBrace(s) ==
  pushCurrentField([s EXCEPT !.depth = @ + 1,
                             !.result = @ \o <<"{", "\n">> \o indentRepeat(s.depth + 1),
                             !.capturingFieldName = TRUE,
                             !.currentFieldName = <<>>])

\* handleCloseBrace; String.repeat throws on a negative count
handleCloseBrace(s) ==
  IF s.depth - 1 < 0 THEN [s EXCEPT !.depth = @ - 1, !.status = "thrown"]
  ELSE [s EXCEPT !.depth = @ - 1,
                 !.pathStack = IF Len(@) > 0 /\ s.depth - 1 >= 1
                               THEN SubSeq(@, 1, Len(@) - 1) ELSE @,
                 !.result = @ \o <<"\n">> \o indentRepeat(s.depth - 1) \o <<"}">>]

\* currentFieldName.replace(/\?$/, "").trim()
cleanFieldName(currentFieldName) ==
  joinText(trimText(IF currentFieldName # <<>> /\ currentFieldName[Len(currentFieldName)] = "?"
                    THEN SubSeq(currentFieldName, 1, Len(currentFieldName) - 1)
                    ELSE currentFieldName), "")

lastIndexOfNewline(text) ==
  IF \E k \in 1..Len(text) : text[k] = "\n"
  THEN CHOOSE k \in 1..Len(text) : text[k] = "\n" /\ \A j \in (k + 1)..Len(text) : text[j] # "\n"
  ELSE 0

\* the comment goes in front of the last line of the result
insertComment(s, desc) ==
  IF desc = "" THEN s.result
  ELSE SubSeq(s.result, 1, lastIndexOfNewline(s.result))
       \o createTsDocComment(desc, indentRepeat(s.depth))
       \o SubSeq(s.result, lastIndexOfNewline(s.result) + 1, Len(s.result))

handleColon(s, prefix) ==
  [s EXCEPT !.result =
              (IF s.capturingFieldName /\ s.currentFieldName # <<>>
               THEN insertComment(s, getFieldDescription(
                                       cleanFieldName(s.currentFieldName),
                                       joinText(SelectSeq(s.pathStack \o <<prefix>>,
                                                          LAMBDA w : w # ""), "."),
                                       s.descriptions))
               ELSE s.result) \o <<":">>,
            !.capturingFieldName = FALSE,
            !.currentFieldName = <<>>]

handleSemicolon(s) ==
  IF tokAt(trimText(SubSeq(s.typeStr, s.i + 1, Len(s.typeStr))), 1) = "}"
  THEN [s EXCEPT !.result = @ \o <<";">>]
  ELSE [s EXCEPT !.result = @ \o <<";", "\n">> \o indentRepeat(s.depth),
                 !.capturingFieldName = TRUE,
                 !.currentFieldName = <<>>]

handleSpace(s) ==
  IF endsWithText(s.result, <<"\n">> \o indentRepeat(s.depth)) THEN s
  ELSE [s EXCEPT !.result = @ \o <<" ">>,
                 !.currentFieldName = IF s.capturingFieldName THEN @ \o <<" ">> ELSE @]

\* handleDefaultChar and handleStringChar
handleDefaultChar(s, char) ==
  [s EXCEPT !.result = @ \o <<char>>,
            !.currentFieldName = IF s.capturingFieldName THEN @ \o <<char>> ELSE @]

\* the switch of prettifyObjectType, after updateStringState
handleChar(s, char, prefix) ==
  IF s.inString THEN handleDefaultChar(s, char)
  ELSE CASE char = "{" -> handleOpenBrace(s)
         [] char = "}" -> handleCloseBrace(s)
         [] char = ":" -> handleColon(s, prefix)
         [] char = ";" -> handleSemicolon(s)
         [] char = " " -> handleSpace(s)
         [] OTHER -> handleDefaultChar(s, char)

\* line.trimEnd() on every line of the result, from its end backwards
RECURSIVE trimLineEnds(_, _, _)
trimLineEnds(text, k, atLineEnd) ==
  IF k = 0 THEN <<>>
  ELSE IF text[k] = "\n" THEN trimLineEnds(text, k - 1, TRUE) \o <<"\n">>
  ELSE IF atLineEnd /\ text[k] \in {" ", Indent} THEN trimLineEnds(text, k - 1, TRUE)
  ELSE trimLineEnds(text, k - 1, FALSE) \o <<text[k]>>

isObjectText(typeStr) ==
  typeStr # <<>> /\ Head(typeStr) = "{" /\ typeStr[Len(typeStr)] = "}"

\* one turn of the for loop of prettifyObjectType; after the last character
\* prettifyType trims the lines of the result
prettifyTurn(s, prefix) ==
  IF s.i > Len(s.typeStr)
  THEN [s EXCEPT !.status = "done", !.out = trimLineEnds(s.result, Len(s.result), TRUE)]
  ELSE [handleChar(trackStringLiteral(s, s.typeStr[s.i], tokAt(s.typeStr, s.i - 1)),
                   s.typeStr[s.i], prefix)
          EXCEPT !.i = @ + 1]

\* the type texts handed to the printer: flat and nested objects, an optional
\* property, string literals holding braces, colons, semicolons, spaces and
\* escapes, an empty object and a text that is no object
PrintedTexts ==
  { <<"{", " ", "a", ":", " ", "string", ";", " ", "b", ":", " ", "number", ";", " ", "}">>,
    <<"{", " ", "a", ":", " ", "{", " ", "b", ":", " ", "string", ";", " ", "}", ";", " ",
      "b", "?", ":", " ", "number", ";", " ", "}">>,
    <<"{", " ", "b", ":", " ", "\"", "{", " ", "a", ":", ";", "}", "\"", ";", " ", "}">>,
    <<"{", " ", "a", ":", " ", "'", "x", "\\", "'", "}", " ", "'", ";", " ", "}">>,
    <<"{", " ", "a", ":", " ", "\"", "\\", "\\", "\"", ";", " ", "b", ":", " ", "string", ";",
      " ", "}">>,
    <<"{", "}">>,
    <<"string", " ", "|", " ", "number">> }

DescriptionLists ==
  { <<>>,
    <<FieldDescription("a", "first")>>,
    <<FieldDescription("b", "second")>>,
    <<FieldDescription("a.b", "inner")>>,
    <<FieldDescription("a", "first"), FieldDescription("a.b", "inner")>> }

\* prettifyType(typeStr, indent, descriptions) starts: a text that is no object
\* is returned as it is
StartPrettify(typeStr, descriptions) ==
  /\ scan.fn = "none"
  /\ scan' = IF isObjectText(typeStr) THEN createParserState(typeStr, descriptions)
             ELSE [createParserState(typeStr, descriptions) EXCEPT
                     !.status = "done", !.out = typeStr]
  /\ UNCHANGED <<extractorVars, printed, lookup, resolver, cliState>>

PrettifyTurn ==
  /\ scan.fn = "prettifyType" /\ scan.status = "running"
  /\ scan' = prettifyTurn(scan, "")
  /\ UNCHANGED <<extractorVars, printed, lookup, resolver, cliState>>

NextText ==
  \/ \E marker \in TypeNodeMarkers : \E T \in ExplicitTypes : \E rest \in TypeArgumentRests :
       StartExplicitType(marker, T, rest)
  \/ ExplicitTypeTurn
  \/ \E typeStr \in PrintedTexts : \E descriptions \in DescriptionLists :
       StartPrettify(typeStr, descriptions)
  \/ PrettifyTurn
  \/ \E props \in AnyObjects : \E getterFields \in GetterMaps : ResolveAnyTypes(props, getterFields)

SpecText == Init /\ [][NextText]_vars

\* C21: for a declaration annotated with a schema-type marker, the explicit
\* type captured when the scan ends is exactly the first type argument T,
\* character for character, whatever T is built from.
C21_ExplicitTypeIsFirstArgument ==
  (scan.fn = "extractExplicitType" /\ scan.status = "done" /\ scan.T # <<>>) =>
    scan.explicitType = scan.T

\* the info of the self-referencing getter named like the property, if any
selfRefInfos(getterFields, name) ==
  {i \in 1..Len(getterFields) : getterFields[i].isSelfRef /\ getterFields[i].fieldName = name}

\* the value a property has after resolveAnyTypes according to its own getter
resolvedValue(value, info, typeName) ==
  CASE value = <<"any">> -> <<typeName>> \o (IF info.isArray THEN <<"[", "]">> ELSE <<>>)
    [] value = <<"any", "[", "]">> -> <<typeName, "[", "]">>
    [] value = <<"readonly", "any", "[", "]">> -> <<"readonly", typeName, "[", "]">>
    [] value = <<"{", "[x: string]:", "any", "}">> /\ info.isRecord ->
         <<"{", "[x: string]:", typeName, "}">>
    [] OTHER -> value

resolvedProperty(prop, getterFields, typeName) ==
  IF selfRefInfos(getterFields, prop.name) = {} THEN prop
  ELSE [prop EXCEPT !.value =
          resolvedValue(@, getterFields[CHOOSE i \in selfRefInfos(getterFields, prop.name) : TRUE],
                        typeName)]

\* C22: resolveAnyTypes changes nothing but the `any` placeholder of the
\* self-referencing getter fields: the result is the input text in which the
\* value of every property named exactly like a self-referencing getter has its
\* placeholder replaced by the type name (one `[]` when array-wrapped, inside
\* the index signature when record-wrapped), every other property, one whose
\* name merely ends with the getter's name included, keeping its text.
C22_OnlySelfRefPlaceholdersChange ==
  scan.fn = "resolveAnyTypes" =>
    scan.result = objectText([i \in 1..Len(scan.props) |->
                                resolvedProperty(scan.props[i], scan.getterFields, scan.typeName)])

\* ---- reading a printed text back: its properties, their paths and the comment
\* directly above each of them
commentOf(description) == "/** " \o description \o " */"

RECURSIVE previousSignificant(_, _)
previousSignificant(text, k) ==
  IF k = 0 THEN ""
  ELSE IF text[k] \in {" ", Indent, "\n"} THEN previousSignificant(text, k - 1)
  ELSE text[k]

isPropertyName(text, k, comments) ==
  /\ text[k] \notin {" ", Indent, "\n", "{", "}", ":", ";", "?", "[", "]", "(", ")"} \cup comments
  /\ tokAt(text, k + 1) = ":" \/ (tokAt(text, k + 1) = "?" /\ tokAt(text, k + 2) = ":")
  /\ previousSignificant(text, k - 1) \in {"{", ";"} \cup comments

readerStart == [quote |-> "", escaped |-> FALSE, stack |-> <<>>, lastField |-> "", found |-> {}]

readToken(text, k, r, comments) ==
  IF r.quote # ""
  THEN IF r.escaped THEN [r EXCEPT !.escaped = FALSE]
       ELSE IF text[k] = "\\" THEN [r EXCEPT !.escaped = TRUE]
       ELSE IF text[k] = r.quote THEN [r EXCEPT !.quote = ""]
       ELSE r
  ELSE IF text[k] \in {"\"", "'", Backtick} THEN [r EXCEPT !.quote = text[k]]
  ELSE IF text[k] = "{" THEN [r EXCEPT !.stack = Append(@, r.lastField), !.lastField = ""]
  ELSE IF text[k] = "}" /\ r.stack # <<>>
       THEN [r EXCEPT !.lastField = r.stack[Len(r.stack)],
                      !.stack = SubSeq(@, 1, Len(@) - 1)]
  ELSE IF isPropertyName(text, k, comments)
       THEN [r EXCEPT !.lastField = text[k],
                      !.found = @ \cup
                        {<<joinText(SelectSeq(r.stack \o <<text[k]>>, LAMBDA w : w # ""), "."),
                           IF previousSignificant(text, k - 1) \in comments
                           THEN previousSignificant(text, k - 1) ELSE "">>}]
  ELSE r

RECURSIVE readProperties(_, _, _, _)
readProperties(text, k, r, comments) ==
  IF k > Len(text) THEN r.found
  ELSE readProperties(text, k + 1, readToken(text, k, r, comments), comments)

\* the <<path, comment above it>> pairs of the properties of a text
propertiesOf(text, descriptions) ==
  readProperties(text, 1, readerStart,
                 {commentOf(descriptions[k].description) : k \in 1..Len(descriptions)})

commentFor(path, descriptions) ==
  IF descriptionAt(descriptions, path) = "" THEN ""
  ELSE commentOf(descriptionAt(descriptions, path))

\* C23: when descriptions are given, the printed text carries the comment of
\* the description with path p directly above the property at path p (for a
\* nested path a.b, above b inside a), and no comment above any other property.
C23_CommentAboveItsPathOnly ==
  (scan.fn = "prettifyType" /\ scan.status = "done" /\ scan.descriptions # <<>>) =>
    propertiesOf(scan.out, scan.descriptions) =
      {<<pr[1], commentFor(pr[1], scan.descriptions)>> : pr \in propertiesOf(scan.typeStr, <<>>)}

\* the string literals of a text read with their escapes: quoteAfter is the
\* open quote ("" outside a literal) once the character at k is read
quoteAfter(char, quote, escaped) ==
  IF quote # "" THEN (IF ~escaped /\ char = quote THEN "" ELSE quote)
  ELSE IF char \in {"\"", "'", Backtick} THEN char ELSE ""

escapedAfter(char, quote, escaped) == quote # "" /\ ~escaped /\ char = "\\"

\* the text without the whitespace that stands outside its string literals
RECURSIVE withoutOuterWhitespace(_, _, _, _)
withoutOuterWhitespace(text, k, quote, escaped) ==
  IF k > Len(text) THEN <<>>
  ELSE (IF quote = "" /\ text[k] \in {" ", Indent, "\n"} THEN <<>> ELSE <<text[k]>>)
       \o withoutOuterWhitespace(text, k + 1, quoteAfter(text[k], quote, escaped),
                                 escapedAfter(text[k], quote, escaped))

\* the braces outside string literals close what was opened, and nothing else
RECURSIVE bracesBalanced(_, _, _, _, _)
bracesBalanced(text, k, quote, escaped, open) ==
  IF open < 0 THEN FALSE
  ELSE IF k > Len(text) THEN open = 0
  ELSE bracesBalanced(text, k + 1, quoteAfter(text[k], quote, escaped),
                      escapedAfter(text[k], quote, escaped),
                      IF quote # "" THEN open
                      ELSE IF text[k] = "{" THEN open + 1
                      ELSE IF text[k] = "}" THEN open - 1 ELSE open)

nonWhitespace(text) == SelectSeq(text, LAMBDA c : c \notin {" ", Indent, "\n"})

\* C29: without descriptions prettifyType changes only whitespace outside
\* string literals: the non-whitespace characters of the output are those of
\* the input in the same order, string literals are kept with everything in
\* them, and on a brace-balanced input the depth counter is never negative and
\* is 0 after the last character.
C29_PrettifyChangesWhitespaceOnly ==
  (scan.fn = "prettifyType" /\ scan.descriptions = <<>>) =>
    /\ scan.status = "done" =>
         /\ nonWhitespace(scan.out) = nonWhitespace(scan.typeStr)
         /\ withoutOuterWhitespace(scan.out, 1, "", FALSE)
              = withoutOuterWhitespace(scan.typeStr, 1, "", FALSE)
    /\ bracesBalanced(scan.typeStr, 1, "", FALSE, 0) =>
         /\ scan.depth >= 0 /\ scan.status # "thrown"
         /\ scan.status = "done" => scan.depth = 0

\* ------------------------------------------------------ the generated file
\* the mappers of MapperChoices and one whose custom name is the name of
\* another schema of the file
FileMapperChoices ==
  MapperChoices \cup {NameMappingOptions([k \in {"Dog"} |-> "Bird"], "", "", "")}

\* generateDeclarationFile(results, mapName, options) on the results of extractAll
GenerateDeclarationFile(mapping, options) ==
  /\ pc = "returned"
  /\ generated = <<>>
  /\ generated' = <<[path |-> call.file, results |-> results, mapping |-> mapping,
                     options |-> options,
                     content |-> generateDeclarationFile(results, mapping, options)]>>
  /\ UNCHANGED <<extractorVars, printed, lookup, scan, resolver>>
  /\ UNCHANGED <<cliPc, cliFiles, cliOptions, fileConfig, config, io, resolvedFiles, fileIdx,
                 fileResults, allResults, totalResults, perFile, cliError>>

NextFile ==
  \/ generated = <<>> /\ \E f \in Files : ExtractAll(f)
  \/ ExtractorStep
  \/ \E mapping \in FileMapperChoices : \E options \in DeclOptionChoices :
       GenerateDeclarationFile(mapping, options)

SpecFile == Init /\ [][NextFile]_vars

\* the declarations of a generated file, result by result
declsOfFile(file) ==
  Concat([i \in 1..Len(file.content.declarations) |-> file.content.declarations[i].decls])

declaredNames(file) == {declsOfFile(file)[k].name : k \in 1..Len(declsOfFile(file))}

\* the type names generated for the schemas of the results: as the extractor
\* writes them and as the mapper renames them
generatedTypeNames(resultList, mapping) ==
  UNION {{resultList[i].schemaName \o "Input", resultList[i].schemaName \o "Output",
          mapName(mapping, resultList[i].schemaName).inputName,
          mapName(mapping, resultList[i].schemaName).outputName} : i \in 1..Len(resultList)}

\* the schema names behind the references of a file that have no declaration
undeclaredReferences(file) ==
  {tok \in UNION {Range(declsOfFile(file)[k].text) : k \in 1..Len(declsOfFile(file))} :
     tok \in generatedTypeNames(file.results, file.mapping) /\ tok \notin declaredNames(file)}

\* C24: every generated type name referenced inside a declaration of a
\* generated file is declared in that file, whatever schemas are exported and
\* whatever inputOnly, outputOnly and unification say, and no declaration is
\* `type X = X`.
C24_ReferencesDeclaredInTheFile ==
  \A g \in 1..Len(generated) :
    "results" \in DOMAIN generated[g] =>
      /\ undeclaredReferences(generated[g]) = {}
      /\ \A k \in 1..Len(declsOfFile(generated[g])) :
           declsOfFile(generated[g])[k].text # <<declsOfFile(generated[g])[k].name>>

\* C25: under every name mapping, the declarations of two results with
\* different schema names have different type names in one generated file.
C25_NoTwoSchemasShareATypeName ==
  \A g \in 1..Len(generated) :
    "results" \in DOMAIN generated[g] =>
      \A i, j \in 1..Len(generated[g].content.declarations) :
        generated[g].content.declarations[i].result.schemaName
          # generated[g].content.declarations[j].result.schemaName =>
            Range(declNames(generated[g].content.declarations[i].decls))
              \cap Range(declNames(generated[g].content.declarations[j].decls)) = {}

\* ------------------------------------------- the frame of a substitution
\* the text of one field whose reference is written by its type name
\* (byName) or left expanded: the name stands where the shape of the
\* referenced schema stood, the other members of the value stay
fieldTextWith(f, fld, kind, byName) ==
  FieldText(fld, kind,
            [r \in {fld.refSchema} |->
               IF byName THEN <<r \o (IF kind = "input" THEN "Input" ELSE "Output")>>
               ELSE Expand(f, r, kind)])

\* the text of an object schema with the references of the fields in named
\* written by name and nothing else changed
textWithNames(f, d, kind, named) ==
  <<"{">>
  \o Concat([i \in 1..Len(d.fields) |-> fieldTextWith(f, d.fields[i], kind, i \in named)])
  \o <<"}">>

referenceFields(d) == {i \in 1..Len(d.fields) : d.fields[i].refSchema # ""}

\* C27: in the result of an object schema the substitution of references by
\* type names changes nothing but the expanded shapes it replaces: the text
\* is the fully expanded text with the shape of some referenced schemas
\* replaced by their type names, `| null` and `| undefined` of the value, the
\* name and the optional marker of the field and every other field as they were.
C27_OnlyTheShapeIsReplaced ==
  pc = "returned" =>
    \A j \in 1..Len(results) :
      LET A == results[j]
          d == DeclOf(call.file, A.schemaName)
      IN (A.schemaName # "" /\ d.name = A.schemaName /\ d.builder = "object"
          /\ d.getters = << >> /\ d.brands = << >>) =>
         /\ \E named \in SUBSET referenceFields(d) :
              A.input = textWithNames(call.file, d, "input", named)
         /\ \E named \in SUBSET referenceFields(d) :
              A.output = textWithNames(call.file, d, "output", named)

\* ------------------------------------------------- the order of the results
\* a is b with some of its elements left out
RECURSIVE isSubsequence(_, _)
isSubsequence(a, b) ==
  IF a = << >> THEN TRUE
  ELSE IF b = << >> THEN FALSE
  ELSE IF Head(a) = Head(b) THEN isSubsequence(Tail(a), Tail(b))
  ELSE isSubsequence(a, Tail(b))

resultNames == [j \in 1..Len(results) |-> results[j].schemaName]

importedLocalNames(f) ==
  [i \in 1..Len(findImportedSchemas(f)) |-> findImportedSchemas(f)[i].localName]

\* the order the local results must follow: the requested names for
\* extractMultiple, the detection order for extractAll
localOrder == IF call.api = "extractMultiple" THEN call.names ELSE getSchemaNames(call.file)

\* the results are those of imported schemas in import order, then those of
\* local schemas in the order of the call
importedThenLocal ==
  \E k \in 0..Len(results) :
    /\ isSubsequence(SubSeq(resultNames, 1, k), importedLocalNames(call.file))
    /\ \A j \in 1..k : ~results[j].isExported
    /\ isSubsequence(SubSeq(resultNames, k + 1, Len(results)), localOrder)

\* C30: the list one extractAll / extractMultiple call returns holds at most
\* one result per schemaName, the results of imported schemas first and those
\* of local schemas after them, in detection order (in the order of the
\* requested names for extractMultiple).
C30_OneResultPerNameInOrder ==
  (pc = "returned" /\ call.api \in {"extractAll", "extractMultiple"}) =>
    /\ \A i, j \in 1..Len(results) : results[i].schemaName = results[j].schemaName => i = j
    /\ importedThenLocal

====
